---------------------------- MODULE Spec2Model ----------------------------
(***************************************************************************)
(* State-machine model of the worker threads of azure_storage_manager      *)
(* (src/workers.py) and of the storage calls they make through             *)
(* AzureManager (src/managers.py).                                         *)
(*                                                                         *)
(* One job runs per behaviour; `kind` says which worker class runs it:     *)
(*   "Download"  DownloadWorker.run                                        *)
(*   "Upload"    UploadWorker.run                                          *)
(*   "Delete"    DeleteWorker.run                                          *)
(*   "Transfer"  TransferWorker.run with its thread pool, its              *)
(*               SizeCalculatorWorker and the Qt slots that receive the    *)
(*               calculator's queued signals                               *)
(* Blob names are sequences of path segments: <<"d","a">> is "d/a"; a      *)
(* directory entry <<"d">> stands for the prefix "d/".                     *)
(***************************************************************************)
EXTENDS Naturals, Integers, Sequences, FiniteSets, TLC

(***************************************************************************)
(* Bounds of the model.                                                    *)
(***************************************************************************)
MaxConcurrency == 2   \* an options["concurrency"] the caller gives is in 1..MaxConcurrency
MaxCancels == 1       \* number of cancel() calls made on one job
MaxRepeatedCancels == 2  \* the same, where the Cancel button is pressed again
MaxExpands == 4       \* number of itemExpanded events the blob tree receives
MaxBytes == 2         \* byte counters given to _calculate_speed_and_eta are in 0..MaxBytes
MaxCount == 2         \* file counters given to _calculate_speed_and_eta are in 0..MaxCount
MaxElapsed == 2       \* seconds elapsed since start_time are in 0..MaxElapsed

(***************************************************************************)
(* The container: blob names in the order the service lists them.          *)
(***************************************************************************)
BlobNames == << <<"a">>, <<"d", "a">>, <<"d", "e", "b">> >>

(* The emission of line 600 is made at every BatchEvery-th file.          *)
BatchEvery == 10

(* The directory "bulk" holds NumBulk files, named by their numbers; the   *)
(* odd-numbered ones are the small ones.                                   *)
NumBulk == 2 * BatchEvery

SmallBulk == {<<"bulk", ToString(k)>> : k \in {j \in 1..NumBulk : j % 2 = 1}}

BlobSize(name) ==
    CASE name = <<"a">> -> 1
      [] name = <<"d", "a">> -> 2
      [] name \in SmallBulk -> 1
      [] OTHER -> 4

Accounts == {"src", "dst"}

FileItem(name) == [name |-> name, size |-> BlobSize(name), is_directory |-> FALSE]
DirItem(name) == [name |-> name, size |-> 0, is_directory |-> TRUE]

IsUnder(prefix, name) ==
    /\ Len(name) > Len(prefix)
    /\ SubSeq(name, 1, Len(prefix)) = prefix

InSeq(x, s) == \E i \in 1..Len(s) : s[i] = x

RECURSIVE WalkFrom(_, _, _)
(* walk_blobs(name_starts_with=prefix): one level below prefix, a blob as a *)
(* file entry and every deeper blob as the entry of its directory, once.    *)
WalkFrom(prefix, i, acc) ==
    IF i > Len(BlobNames) THEN acc
    ELSE LET b == BlobNames[i]
             e == IF Len(b) = Len(prefix) + 1
                  THEN FileItem(b)
                  ELSE DirItem(SubSeq(b, 1, Len(prefix) + 1))
         IN  IF IsUnder(prefix, b) /\ ~InSeq(e, acc)
             THEN WalkFrom(prefix, i + 1, Append(acc, e))
             ELSE WalkFrom(prefix, i + 1, acc)

get_blob_service_client(ok, account) == ok[account]

get_blobs_in_container(ok, account, prefix) ==
    IF ~get_blob_service_client(ok, account) THEN <<>>
    ELSE WalkFrom(prefix, 1, <<>>)

RECURSIVE GetAllFrom(_, _, _, _, _)
RECURSIVE get_all_files_in_directory(_, _, _, _)
(* A listing that keeps the files of one level and does not descend.       *)
list_one_level(ok, account, prefix, all_files) ==
    all_files \o SelectSeq(get_blobs_in_container(ok, account, prefix),
                           LAMBDA b : ~b.is_directory)

(* _get_all_files_in_directory: depth-first, appending to the one shared   *)
(* all_files list and returning it.                                        *)
get_all_files_in_directory(ok, account, prefix, all_files) ==
    GetAllFrom(ok, account, get_blobs_in_container(ok, account, prefix), 1, all_files)

GetAllFrom(ok, account, blobs, i, all_files) ==
    IF i > Len(blobs) THEN all_files
    ELSE IF blobs[i].is_directory
         THEN GetAllFrom(ok, account, blobs, i + 1,
                         get_all_files_in_directory(ok, account, blobs[i].name, all_files))
         ELSE GetAllFrom(ok, account, blobs, i + 1, Append(all_files, blobs[i]))

RECURSIVE ExpandItems(_, _, _, _, _)
(* The expansion loop of DownloadWorker.run and TransferWorker.run.        *)
ExpandItems(ok, account, its, i, acc) ==
    IF i > Len(its) THEN acc
    ELSE IF its[i].is_directory
         THEN ExpandItems(ok, account, its, i + 1,
                          acc \o get_all_files_in_directory(ok, account, its[i].name, <<>>))
         ELSE ExpandItems(ok, account, its, i + 1, Append(acc, its[i]))

(* The non-directory blobs of one listing, as DeleteWorker.run keeps them. *)
NonDirectoryNames(blobs) ==
    LET files == SelectSeq(blobs, LAMBDA b : ~b.is_directory)
    IN  [i \in 1..Len(files) |-> FileItem(files[i].name)]

(***************************************************************************)
(* The selections handed to a worker.  The directory <<"x">> was listed    *)
(* when the user selected it and holds no blob when the job runs.  The     *)
(* tree selects any set of its items (ExtendedSelection), an expanded      *)
(* directory together with a file it shows included.                       *)
(***************************************************************************)
Selections ==
    { << DirItem(<<"x">>) >>,
      << FileItem(<<"a">>) >>,
      << DirItem(<<"d">>) >>,
      << DirItem(<<"d", "e">>) >>,
      << FileItem(<<"a">>), DirItem(<<"d", "e">>) >>,
      << FileItem(<<"a">>), DirItem(<<"d">>) >>,
      << DirItem(<<"d">>), FileItem(<<"d", "a">>) >> }

(* The selections handed to a TransferWorker.                              *)
TransferSelections ==
    { << DirItem(<<"x">>) >>,
      << FileItem(<<"a">>) >>,
      << DirItem(<<"d">>) >> }

(* UploadWorker gets local file paths, never directories.                  *)
UploadSelections ==
    { << FileItem(<<"a">>) >>,
      << FileItem(<<"a">>), FileItem(<<"d", "a">>) >>,
      << FileItem(<<"a">>), FileItem(<<"d", "a">>), FileItem(<<"d", "e", "b">>) >> }

Kinds == {"Download", "Upload", "Delete", "Transfer"}

VARIABLES
    kind,            \* which worker class runs the job
    items,           \* items_to_download / items_to_transfer / items_to_delete / file_paths
    options,         \* TransferWorker.options
    clientOK,        \* account -> whether get_blob_service_client returns a client
    cancelled,       \* self.cancelled / self._cancelled
    cancels,         \* number of cancel() calls begun
    pc,              \* position of run()
    files,           \* the resolved file list
    idx,             \* loop index of run()
    total_files,
    completed_files,
    failed,          \* failed_deletions
    attempted,       \* indices of files whose per-file operation was begun
    succeeded,       \* indices of files whose per-file operation returned success
    completion,      \* the *_completed events emitted, in order
    \* TransferWorker only
    tstate,          \* per file: position of its _transfer_single_file call in the pool
    tresult,         \* per file: the value its future returned
    existed,         \* files whose destination blob existed when the overwrite check ran
    copies,          \* files for which start_copy_from_url was issued
    destObjs,        \* blob names present in the destination container
    copyStatus,      \* destination blob name -> properties.copy.status
    yielded,         \* futures as_completed has yielded
    cur,             \* the future the result loop is processing
    bytes_transferred,
    progress,        \* the last percentage progress_updated carried, or NoProgress
    total_bytes,
    size_calculation_complete,
    start_time,      \* whether self.start_time has been set
    speed_eta,       \* what the last call of _calculate_speed_and_eta returned
    size_calculator, \* whether self.size_calculator is set
    scCancelled,     \* SizeCalculatorWorker.cancelled
    scPc,            \* position of SizeCalculatorWorker.run
    total_calculated,
    scCompleted,     \* SizeCalculatorWorker.completed_files
    chunkPos,        \* per chunk: files of the chunk its worker has processed
    chunkDone,       \* per chunk: whether _worker_function returned
    emitDue,         \* per chunk: the current_total its worker is about to emit, or NoEmit
    size_warnings,   \* files for which the warning of line 584 has been logged
    msgs,            \* calculator signals queued for the slots of TransferWorker
    \* MainWindow's blob tree
    children,        \* directory -> the texts of the child items of its tree item
    expands,         \* number of itemExpanded events handled
    listings,        \* directory -> listing threads on_directory_expanded has started
    fetching,        \* directory -> listing threads that have not emitted yet
    loaded           \* directory_contents_loaded signals queued for the GUI thread

jobVars == <<kind, items, options, clientOK>>
seqVars == <<cancelled, cancels, pc, files, idx, total_files, completed_files,
             failed, attempted, succeeded, completion>>
poolVars == <<tstate, tresult, existed, copies, destObjs, copyStatus>>
runVars == <<yielded, cur, bytes_transferred, progress>>
slotVars == <<total_bytes, size_calculation_complete>>
calcVars == <<size_calculator, scCancelled, scPc, total_calculated, scCompleted,
              chunkPos, chunkDone, emitDue, size_warnings, msgs>>
transferVars == <<poolVars, runVars, slotVars, calcVars>>
browseVars == <<children, expands, listings, fetching, loaded>>
etaVars == <<start_time, speed_eta>>
vars == <<jobVars, seqVars, transferVars, browseVars, etaVars>>

Event(success, msg, counts) == [success |-> success, msg |-> msg, counts |-> counts]

(* A job with nothing to do that reports a failure.                        *)
NothingDone(msg) == Event(FALSE, msg, <<>>)

(* The *_completed event of a job whose expansion gave no file (lines 65,  *)
(* 293, 841).                                                              *)
NothingToDo(msg) == Event(TRUE, msg, <<>>)

(***************************************************************************)
(* cancel() of DownloadWorker, UploadWorker and DeleteWorker: one          *)
(* assignment, made by the GUI thread while run() is running.              *)
(***************************************************************************)
Cancel ==
    /\ kind # "Transfer"
    /\ pc # "done"
    /\ cancels < MaxCancels
    /\ cancels' = cancels + 1
    /\ cancelled' = TRUE
    /\ UNCHANGED <<jobVars, browseVars, etaVars, transferVars, pc, files, idx, total_files,
                   completed_files, failed, attempted, succeeded, completion>>

(* The outcomes one storage call on a file can have for the worker.        *)
FileOutcomes(ok, account) == IF get_blob_service_client(ok, account) THEN BOOLEAN ELSE {FALSE}

(***************************************************************************)
(* DownloadWorker.run                                                      *)
(***************************************************************************)
DownloadExpand ==
    /\ kind = "Download"
    /\ pc = "expand"
    /\ LET files_to_download == ExpandItems(clientOK, "src", items, 1, <<>>)
       IN  /\ files' = files_to_download
           /\ total_files' = Len(files_to_download)
           /\ IF Len(files_to_download) = 0
              THEN /\ completion' = Append(completion, NothingToDo("No files to download"))
                   /\ pc' = "done"
              ELSE /\ completion' = completion
                   /\ pc' = "loop"
    /\ idx' = 1
    /\ UNCHANGED <<jobVars, browseVars, etaVars, transferVars, cancelled, cancels, completed_files, failed, attempted, succeeded>>

(* A loop that leaves by "break" when it finds the job cancelled, and so   *)
(* goes on to the code after the loop.                                     *)
DownloadStepBreaks ==
    /\ kind = "Download"
    /\ pc = "loop"
    /\ IF idx > total_files
       THEN /\ completion' = Append(completion,
                  Event(completed_files > 0, "Successfully downloaded",
                        <<completed_files, total_files>>))
            /\ pc' = "done"
            /\ UNCHANGED <<idx, completed_files, attempted, succeeded>>
       ELSE IF cancelled
       THEN /\ completion' = Append(completion, Event(FALSE, "Download cancelled", <<>>))
            /\ idx' = total_files + 1
            /\ UNCHANGED <<pc, completed_files, attempted, succeeded>>
       ELSE \E success \in FileOutcomes(clientOK, "src") :
            /\ attempted' = attempted \cup {idx}
            /\ succeeded' = IF success THEN succeeded \cup {idx} ELSE succeeded
            /\ completed_files' = IF success THEN completed_files + 1 ELSE completed_files
            /\ idx' = idx + 1
            /\ UNCHANGED <<pc, completion>>
    /\ UNCHANGED <<jobVars, browseVars, etaVars, transferVars, cancelled, cancels, files,
                   total_files, failed>>

(* One iteration of "for file_blob in files_to_download", or the code      *)
(* after the loop once the list is exhausted.                              *)
DownloadStep ==
    /\ kind = "Download"
    /\ pc = "loop"
    /\ IF idx > total_files
       THEN /\ completion' = Append(completion,
                  Event(completed_files > 0, "Successfully downloaded",
                        <<completed_files, total_files>>))
            /\ pc' = "done"
            /\ UNCHANGED <<idx, completed_files, attempted, succeeded>>
       ELSE IF cancelled
       THEN /\ completion' = Append(completion, Event(FALSE, "Download cancelled", <<>>))
            /\ pc' = "done"
            /\ UNCHANGED <<idx, completed_files, attempted, succeeded>>
       ELSE \E success \in FileOutcomes(clientOK, "src") :
            /\ attempted' = attempted \cup {idx}
            /\ succeeded' = IF success THEN succeeded \cup {idx} ELSE succeeded
            /\ completed_files' = IF success THEN completed_files + 1 ELSE completed_files
            /\ idx' = idx + 1
            /\ UNCHANGED <<pc, completion>>
    /\ UNCHANGED <<jobVars, browseVars, etaVars, transferVars, cancelled, cancels, files,
                   total_files, failed>>

(***************************************************************************)
(* UploadWorker.run                                                        *)
(***************************************************************************)
UploadClient ==
    /\ kind = "Upload"
    /\ pc = "client"
    /\ IF ~get_blob_service_client(clientOK, "src")
       THEN /\ completion' = Append(completion, Event(FALSE, "Failed to get Azure client", <<>>))
            /\ pc' = "done"
            /\ UNCHANGED total_files
       ELSE /\ total_files' = Len(files)
            /\ pc' = "loop"
            /\ UNCHANGED completion
    /\ idx' = 1
    /\ UNCHANGED <<jobVars, browseVars, etaVars, transferVars, cancelled, cancels, files,
                   completed_files, failed, attempted, succeeded>>

(* Where the loop goes after a file that failed: the handler of lines      *)
(* 734-737 (and 869-872) ends in "continue".                               *)
ContinueBreaks(i, total) == total + 1

ContinueAfterFailure(i, total) == i + 1

(* The final upload_completed event (lines 739-748).                       *)
UploadSummary(completed, total) ==
    IF completed = total
    THEN Event(TRUE, "Successfully uploaded", <<completed>>)
    ELSE Event(FALSE, "Uploaded of", <<completed, total>>)

UploadStep ==
    /\ kind = "Upload"
    /\ pc = "loop"
    /\ IF idx > total_files
       THEN /\ completion' = Append(completion, UploadSummary(completed_files, total_files))
            /\ pc' = "done"
            /\ UNCHANGED <<idx, completed_files, attempted, succeeded>>
       ELSE IF cancelled
       THEN /\ completion' = Append(completion, Event(FALSE, "Upload cancelled by user", <<>>))
            /\ pc' = "done"
            /\ UNCHANGED <<idx, completed_files, attempted, succeeded>>
       ELSE \E success \in BOOLEAN :
            /\ attempted' = attempted \cup {idx}
            /\ succeeded' = IF success THEN succeeded \cup {idx} ELSE succeeded
            /\ completed_files' = IF success THEN completed_files + 1 ELSE completed_files
            /\ idx' = IF success THEN idx + 1 ELSE ContinueAfterFailure(idx, total_files)
            /\ UNCHANGED <<pc, completion>>
    /\ UNCHANGED <<jobVars, browseVars, etaVars, transferVars, cancelled, cancels, files,
                   total_files, failed>>

(***************************************************************************)
(* DeleteWorker.run                                                        *)
(***************************************************************************)
DeleteClient ==
    /\ kind = "Delete"
    /\ pc = "client"
    /\ IF ~get_blob_service_client(clientOK, "src")
       THEN /\ completion' = Append(completion, Event(FALSE, "Failed to get Azure client", <<>>))
            /\ pc' = "done"
       ELSE /\ pc' = "scan"
            /\ UNCHANGED completion
    /\ idx' = 1
    /\ UNCHANGED <<jobVars, browseVars, etaVars, transferVars, cancelled, cancels, files,
                   total_files, completed_files, failed, attempted, succeeded>>

(* One iteration of "for item in self.items_to_delete", or the code after  *)
(* the loop (lines 838-842).                                               *)
DeleteScan ==
    /\ kind = "Delete"
    /\ pc = "scan"
    /\ IF idx > Len(items)
       THEN /\ total_files' = Len(files)
            /\ idx' = 1
            /\ IF Len(files) = 0
               THEN /\ completion' = Append(completion, NothingToDo("No items to delete"))
                    /\ pc' = "done"
               ELSE /\ pc' = "loop"
                    /\ UNCHANGED completion
            /\ UNCHANGED files
       ELSE IF cancelled
       THEN /\ completion' = Append(completion, Event(FALSE, "Deletion cancelled by user", <<>>))
            /\ pc' = "done"
            /\ UNCHANGED <<files, idx, total_files>>
       ELSE /\ files' = IF items[idx].is_directory
                        THEN files \o NonDirectoryNames(
                                 get_blobs_in_container(clientOK, "src", items[idx].name))
                        ELSE Append(files, FileItem(items[idx].name))
            /\ idx' = idx + 1
            /\ UNCHANGED <<pc, completion, total_files>>
    /\ UNCHANGED <<jobVars, browseVars, etaVars, transferVars, cancelled, cancels, completed_files, failed, attempted, succeeded>>

(* The final delete_completed event (lines 874-883).                       *)
DeleteSummary(completed, failed_deletions) ==
    IF failed_deletions = 0
    THEN Event(TRUE, "Successfully deleted", <<completed>>)
    ELSE Event(completed # 0, "Deleted, failed", <<completed, failed_deletions>>)

DeleteStep ==
    /\ kind = "Delete"
    /\ pc = "loop"
    /\ IF idx > total_files
       THEN /\ completion' = Append(completion, DeleteSummary(completed_files, failed))
            /\ pc' = "done"
            /\ UNCHANGED <<idx, completed_files, failed, attempted, succeeded>>
       ELSE IF cancelled
       THEN /\ completion' = Append(completion, Event(FALSE, "Deletion cancelled by user", <<>>))
            /\ pc' = "done"
            /\ UNCHANGED <<idx, completed_files, failed, attempted, succeeded>>
       ELSE \E success \in BOOLEAN :
            /\ attempted' = attempted \cup {idx}
            /\ succeeded' = IF success THEN succeeded \cup {idx} ELSE succeeded
            /\ completed_files' = IF success THEN completed_files + 1 ELSE completed_files
            /\ failed' = IF success THEN failed ELSE failed + 1
            /\ idx' = IF success THEN idx + 1 ELSE ContinueAfterFailure(idx, total_files)
            /\ UNCHANGED <<pc, completion>>
    /\ UNCHANGED <<jobVars, browseVars, etaVars, transferVars, cancelled, cancels, files,
                   total_files>>

(***************************************************************************)
(* TransferWorker                                                          *)
(***************************************************************************)
Max(a, b) == IF a > b THEN a ELSE b
Min(a, b) == IF a < b THEN a ELSE b

(* A pool with one thread more than the options ask for.                   *)
max_workers_one_more(opts) == opts.concurrency + 1

(* max_workers = self.options.get("concurrency", 8), for options that     *)
(* give the key.                                                           *)
max_workers(opts) == opts.concurrency

(* A destination name that always keeps the source path.                   *)
dest_blob_name_keeps_path(opts, name) == name

(* dest_blob_name of _transfer_single_file: the source name, or its last   *)
(* "/"-separated segment.                                                  *)
dest_blob_name(opts, name) ==
    IF opts.preserve_structure THEN name ELSE <<name[Len(name)]>>

DestKeys ==
    {BlobNames[i] : i \in 1..Len(BlobNames)}
        \cup {<<BlobNames[i][Len(BlobNames[i])]>> : i \in 1..Len(BlobNames)}

(* properties.copy.status as the service reports it; "unavailable" stands *)
(* for a get_blob_properties call that raises.                             *)
CopyStatuses == {"pending", "copying", "success", "failed", "aborted", "unavailable"}

Indices == 1..Len(files)

Dest(i) == dest_blob_name(options, files[i].name)

(* A cancel() that flips the flag.                                         *)
cancel_toggles(flag, calculator, calculator_flag) == <<~flag, calculator_flag>>

(* TransferWorker.cancel (lines 214-218) with SizeCalculatorWorker.cancel  *)
(* (lines 556-558): the job's flag and the calculator's flag after the     *)
(* call.                                                                   *)
cancel(flag, calculator, calculator_flag) ==
    <<TRUE, IF calculator THEN TRUE ELSE calculator_flag>>

(* cancel(), called by the GUI thread while the worker is running          *)
(* (MainWindow._on_transfer_cancel): self.cancelled = True, then           *)
(* self.size_calculator.cancel() if a calculator has been created.  The    *)
(* two assignments are taken as one step: no other thread reads            *)
(* size_calculator or writes either flag, so a step of another thread      *)
(* between them has the effect it has before them.                         *)
CancelPressed(limit) ==
    /\ kind = "Transfer"
    /\ pc # "done"
    /\ cancels < limit
    /\ cancels' = cancels + 1
    /\ cancelled' = cancel(cancelled, size_calculator, scCancelled)[1]
    /\ scCancelled' = cancel(cancelled, size_calculator, scCancelled)[2]
    /\ UNCHANGED <<jobVars, browseVars, etaVars, poolVars, runVars, slotVars, pc, files, idx, total_files,
                   completed_files, failed, attempted, succeeded, completion,
                   size_calculator, scPc, total_calculated, scCompleted, chunkPos,
                   chunkDone, emitDue, size_warnings, msgs>>

TransferCancel == CancelPressed(MaxCancels)

(* The Cancel button stays enabled while the worker runs, so it can be     *)
(* pressed again.                                                          *)
TransferCancelAgain == CancelPressed(MaxRepeatedCancels)

(* run(), lines 274-294: start_time is taken, the selection is expanded.   *)
TransferExpand ==
    /\ kind = "Transfer"
    /\ pc = "expand"
    /\ start_time' = TRUE
    /\ LET files_to_transfer == ExpandItems(clientOK, "src", items, 1, <<>>)
           n == Len(files_to_transfer)
       IN  /\ files' = files_to_transfer
           /\ total_files' = n
           /\ tstate' = [i \in 1..n |-> "idle"]
           /\ tresult' = [i \in 1..n |-> FALSE]
           /\ IF n = 0
              THEN /\ completion' = Append(completion, NothingToDo("No files to transfer"))
                   /\ pc' = "done"
              ELSE /\ completion' = completion
                   /\ pc' = "calculator"
    /\ UNCHANGED <<jobVars, browseVars, speed_eta, cancelled, cancels, idx, completed_files, failed,
                   attempted, succeeded, existed, copies, destObjs, copyStatus, runVars,
                   slotVars, calcVars>>

(* run(), lines 302-318: the calculator is created, connected and started. *)
TransferStartCalculator ==
    /\ kind = "Transfer"
    /\ pc = "calculator"
    /\ size_calculator' = TRUE
    /\ scPc' = "run"
    /\ pc' = "submit"
    /\ idx' = 1
    /\ UNCHANGED <<jobVars, browseVars, etaVars, poolVars, runVars, slotVars, cancelled, cancels, files,
                   total_files, completed_files, failed, attempted, succeeded, completion,
                   scCancelled, total_calculated, scCompleted, chunkPos, chunkDone,
                   emitDue, size_warnings, msgs>>

(* A submit loop that starts once the size calculator has finished.       *)
TransferSubmitAfterSizes ==
    /\ kind = "Transfer"
    /\ pc = "submit"
    /\ scPc = "done"
    /\ IF cancelled \/ idx > total_files
       THEN /\ pc' = "collect"
            /\ UNCHANGED <<idx, tstate>>
       ELSE /\ tstate' = [tstate EXCEPT ![idx] = "queued"]
            /\ idx' = idx + 1
            /\ UNCHANGED pc
    /\ UNCHANGED <<jobVars, browseVars, etaVars, cancelled, cancels, files, total_files, completed_files,
                   failed, attempted, succeeded, completion, tresult, existed, copies,
                   destObjs, copyStatus, runVars, slotVars, calcVars>>

(* run(), lines 326-334: one iteration of the submit loop.                 *)
TransferSubmit ==
    /\ kind = "Transfer"
    /\ pc = "submit"
    /\ IF cancelled \/ idx > total_files
       THEN /\ pc' = "collect"
            /\ UNCHANGED <<idx, tstate>>
       ELSE /\ tstate' = [tstate EXCEPT ![idx] = "queued"]
            /\ idx' = idx + 1
            /\ UNCHANGED pc
    /\ UNCHANGED <<jobVars, browseVars, etaVars, cancelled, cancels, files, total_files, completed_files,
                   failed, attempted, succeeded, completion, tresult, existed, copies,
                   destObjs, copyStatus, runVars, slotVars, calcVars>>

Submitted == {i \in Indices : tstate[i] # "idle"}
Finished == {i \in Indices : tstate[i] = "done"}
InFlight == {i \in Indices : tstate[i] \in {"probed", "polling", "reading"}}

(* The outcomes of the overwrite check's get_blob_properties.              *)
ProbeOutcomes(exists) == IF exists THEN {"found", "error"} ELSE {"notfound", "error"}

(* Whether the overwrite check lets the copy go on (lines 481-487).        *)
ProbePasses(outcome) == outcome # "found"

(* A pool thread takes the next queued call and runs lines 463-487.        *)
TaskStart(i) ==
    /\ kind = "Transfer"
    /\ i \in Indices
    /\ tstate[i] = "queued"
    /\ \A j \in 1..(i - 1) : tstate[j] # "queued"
    /\ Cardinality(InFlight) < max_workers(options)
    /\ attempted' = attempted \cup {i}
    /\ IF ~get_blob_service_client(clientOK, "dst")
       THEN /\ tstate' = [tstate EXCEPT ![i] = "done"]
            /\ UNCHANGED <<tresult, existed, succeeded>>
       ELSE IF ~options.overwrite
       THEN \E outcome \in ProbeOutcomes(Dest(i) \in destObjs) :
            /\ existed' = IF Dest(i) \in destObjs THEN existed \cup {i} ELSE existed
            /\ IF ProbePasses(outcome)
               THEN /\ tstate' = [tstate EXCEPT ![i] = "probed"]
                    /\ UNCHANGED <<tresult, succeeded>>
               ELSE /\ tstate' = [tstate EXCEPT ![i] = "done"]
                    /\ tresult' = [tresult EXCEPT ![i] = TRUE]
                    /\ succeeded' = succeeded \cup {i}
       ELSE /\ tstate' = [tstate EXCEPT ![i] = "probed"]
            /\ UNCHANGED <<tresult, existed, succeeded>>
    /\ UNCHANGED <<jobVars, browseVars, etaVars, cancelled, cancels, pc, files, idx, total_files,
                   completed_files, failed, completion, copies, destObjs,
                   copyStatus, runVars, slotVars, calcVars>>

(* Lines 489-502: generate_blob_sas_url, then start_copy_from_url.         *)
TaskStartCopy(i) ==
    /\ kind = "Transfer"
    /\ i \in Indices
    /\ tstate[i] = "probed"
    /\ \E step \in {"no_sas_url", "start_copy_raised", "started"} :
       IF step = "started"
       THEN /\ copies' = copies \cup {i}
            /\ destObjs' = destObjs \cup {Dest(i)}
            /\ copyStatus' = [copyStatus EXCEPT ![Dest(i)] = "pending"]
            /\ tstate' = [tstate EXCEPT ![i] = "polling"]
       ELSE /\ tstate' = [tstate EXCEPT ![i] = "done"]
            /\ UNCHANGED <<copies, destObjs, copyStatus>>
    /\ UNCHANGED <<jobVars, browseVars, etaVars, seqVars, tresult, existed, runVars, slotVars, calcVars>>

(* A poll loop that takes a status it does not know for a success.         *)
PollVerdictLenient(copy_status) ==
    CASE copy_status = "failed" -> "false"
      [] copy_status \in {"pending", "copying"} -> "again"
      [] OTHER -> "true"

(* What one pass of the poll loop does with the status it read (lines      *)
(* 512-522): "again" sleeps and loops.                                     *)
PollVerdict(copy_status) ==
    CASE copy_status = "success" -> "true"
      [] copy_status = "failed" -> "false"
      [] copy_status \in {"pending", "copying"} -> "again"
      [] OTHER -> "false"

(* A poll loop that reads the status without looking at the flag.          *)
TaskPollIgnoresCancel(i) ==
    /\ kind = "Transfer"
    /\ i \in Indices
    /\ \/ /\ tstate[i] = "polling"
          /\ tstate' = [tstate EXCEPT ![i] = "reading"]
          /\ UNCHANGED <<tresult, succeeded>>
       \/ /\ tstate[i] = "reading"
          /\ LET copy_status == copyStatus[Dest(i)]
                 verdict == IF copy_status = "unavailable" THEN "false"
                            ELSE PollVerdict(copy_status)
             IN  /\ tstate' = [tstate EXCEPT
                                 ![i] = IF verdict = "again" THEN "polling" ELSE "done"]
                 /\ tresult' = [tresult EXCEPT ![i] = (verdict = "true")]
                 /\ succeeded' = IF verdict = "true" THEN succeeded \cup {i} ELSE succeeded
    /\ UNCHANGED <<jobVars, browseVars, etaVars, cancelled, cancels, pc, files, idx, total_files,
                   completed_files, failed, attempted, completion, existed, copies,
                   destObjs, copyStatus, runVars, slotVars, calcVars>>

(* One pass of "while True" (lines 505-522), in its two steps: the test of *)
(* self.cancelled (506-507), which leaves the file "reading", and the      *)
(* read of properties.copy.status with what follows it (509-522), which    *)
(* another thread's cancel() can precede.  A get_blob_properties that      *)
(* raises ends the call in the handler of line 524; after the sleep of     *)
(* line 519 the file is "polling" again.                                   *)
TaskPoll(i) ==
    /\ kind = "Transfer"
    /\ i \in Indices
    /\ \/ /\ tstate[i] = "polling"
          /\ tstate' = [tstate EXCEPT ![i] = IF cancelled THEN "done" ELSE "reading"]
          /\ UNCHANGED <<tresult, succeeded>>
       \/ /\ tstate[i] = "reading"
          /\ LET copy_status == copyStatus[Dest(i)]
                 verdict == IF copy_status = "unavailable" THEN "false"
                            ELSE PollVerdict(copy_status)
             IN  /\ tstate' = [tstate EXCEPT
                                 ![i] = IF verdict = "again" THEN "polling" ELSE "done"]
                 /\ tresult' = [tresult EXCEPT ![i] = (verdict = "true")]
                 /\ succeeded' = IF verdict = "true" THEN succeeded \cup {i} ELSE succeeded
    /\ UNCHANGED <<jobVars, browseVars, etaVars, cancelled, cancels, pc, files, idx, total_files,
                   completed_files, failed, attempted, completion, existed, copies,
                   destObjs, copyStatus, runVars, slotVars, calcVars>>

(* The storage service moves a server-side copy on, or leaves it.          *)
CopyAdvance(k) ==
    /\ kind = "Transfer"
    /\ k \in DestKeys
    /\ \E i \in Indices : tstate[i] \in {"polling", "reading"} /\ Dest(i) = k
    /\ copyStatus[k] \in {"pending", "copying"}
    /\ \E s \in CopyStatuses \ {"pending", copyStatus[k]} :
       copyStatus' = [copyStatus EXCEPT ![k] = s]
    /\ UNCHANGED <<jobVars, browseVars, etaVars, seqVars, tstate, tresult, existed, copies, destObjs, runVars,
                   slotVars, calcVars>>

(* A stream of futures that may yield a finished future again.             *)
yields_again(finished, already) == finished

(* The futures as_completed(future_to_file) can yield next: the finished   *)
(* ones it has not yielded.                                                *)
as_completed(finished, already) == finished \ already

(* as_completed yields the next finished future, or ends; then the         *)
(* "if self.cancelled: break" of lines 337-341.                            *)
TransferCollect ==
    /\ kind = "Transfer"
    /\ pc = "collect"
    /\ IF Submitted \subseteq yielded
       THEN /\ pc' = "shutdown"
            /\ UNCHANGED <<yielded, cur>>
       ELSE \E i \in as_completed(Finished, yielded) :
            /\ yielded' = yielded \cup {i}
            /\ IF cancelled
               THEN /\ pc' = "shutdown"
                    /\ UNCHANGED cur
               ELSE /\ pc' = "process"
                    /\ cur' = i
    /\ UNCHANGED <<jobVars, browseVars, etaVars, poolVars, slotVars, calcVars, cancelled, cancels, files,
                   idx, total_files, completed_files, failed, attempted, succeeded,
                   completion, bytes_transferred, progress>>

(* _calculate_speed_and_eta has not been called.                           *)
NoSpeedEta ==
    [called |-> FALSE, elapsed |-> 0, speed_str |-> "", eta_str |-> "", eta_basis |-> "",
     eta_seconds |-> 0, bytes_done |-> 0, total_bytes |-> 0, size_calc_complete |-> FALSE]

(* What _calculate_speed_and_eta returns: the tuple of lines 263-269, with *)
(* the elapsed time the call measured.  speed_str is "0 B/s" or the        *)
(* formatted rate ("rate"); eta_str is "Calculating..." or the formatted   *)
(* time ("time") of eta_seconds, whose basis is the bytes or the files.    *)
SpeedEta(elapsed, speed_str, eta_basis, eta_seconds, bytes_done, total, complete) ==
    [called |-> TRUE, elapsed |-> elapsed, speed_str |-> speed_str,
     eta_str |-> IF eta_basis = "none" THEN "Calculating..." ELSE "time",
     eta_basis |-> eta_basis, eta_seconds |-> eta_seconds, bytes_done |-> bytes_done,
     total_bytes |-> total, size_calc_complete |-> complete]

(* The two rules applied in their order to whatever the counters are,      *)
(* without the early returns.                                              *)
speed_and_eta_by_rules(started, bytes, total, completed, total_count, complete, elapsed) ==
    IF started /\ elapsed > 0 /\ total > 0 /\ bytes > 0
    THEN SpeedEta(elapsed, "rate", "bytes", (Max(0, total - bytes) * elapsed) \div bytes,
                  bytes, total, complete)
    ELSE IF started /\ elapsed > 0 /\ completed > 0 /\ total_count > 0
    THEN SpeedEta(elapsed, IF bytes > 0 THEN "rate" ELSE "0 B/s", "files",
                  ((total_count - completed) * elapsed) \div completed,
                  bytes, total, complete)
    ELSE SpeedEta(elapsed, "0 B/s", "none", 0, bytes, total, complete)

(* _calculate_speed_and_eta (lines 220-269); elapsed is what               *)
(* time.time() - self.start_time gives when start_time is set.  speed_bps  *)
(* is bytes / elapsed, so remaining / speed_bps is remaining * elapsed /   *)
(* bytes, and remaining_files / files_per_second is remaining_files *      *)
(* elapsed / completed; eta_seconds is its whole part.                     *)
calculate_speed_and_eta(started, bytes, total, completed, total_count, complete, elapsed) ==
    IF ~started \/ bytes = 0
    THEN SpeedEta(elapsed, "0 B/s", "none", 0, 0, total, complete)
    ELSE IF elapsed = 0
    THEN SpeedEta(elapsed, "0 B/s", "none", 0, bytes, total, complete)
    ELSE IF total > 0 /\ bytes > 0
    THEN SpeedEta(elapsed, "rate", "bytes", (Max(0, total - bytes) * elapsed) \div bytes,
                  bytes, total, complete)
    ELSE IF completed > 0 /\ total_count > 0
    THEN SpeedEta(elapsed, "rate", "files",
                  ((total_count - completed) * elapsed) \div completed,
                  bytes, total, complete)
    ELSE SpeedEta(elapsed, "rate", "none", 0, bytes, total, complete)

(* One call of _calculate_speed_and_eta on a worker whose counters are     *)
(* the state's.                                                            *)
CalculateSpeedAndEta ==
    /\ kind = "SpeedEta"
    /\ ~speed_eta.called
    /\ \E elapsed \in 0..MaxElapsed :
       speed_eta' = calculate_speed_and_eta(start_time, bytes_transferred, total_bytes,
                        completed_files, total_files, size_calculation_complete,
                        IF start_time THEN elapsed ELSE 0)
    /\ UNCHANGED <<jobVars, browseVars, seqVars, transferVars, start_time>>

(* No progress_updated signal has been emitted.                            *)
NoProgress == -1

(* A percentage from the bytes alone, without the cap.                     *)
progress_uncapped(bytes, total, completed, total_count) ==
    IF total > 0 THEN (bytes * 100) \div total
    ELSE (completed * 100) \div total_count

(* The percentage of lines 357-368; int() of a non-negative quotient is    *)
(* its floor.                                                              *)
progress_percent(bytes, total, completed, total_count) ==
    IF total > 0 THEN Min((bytes * 100) \div total, 99)
    ELSE (completed * 100) \div total_count

(* A count of the bytes of every future taken, failed ones included.       *)
counted_bytes_always(success, file_size) == file_size

(* What lines 352-354 add to bytes_transferred for one future.             *)
counted_bytes(success, file_size) == IF success THEN file_size ELSE 0

(* Lines 343-390: the result of one future is counted and, for a success,  *)
(* the progress is emitted.                                                *)
TransferProcess ==
    /\ kind = "Transfer"
    /\ pc = "process"
    /\ LET success == tresult[cur]
           file_size == files[cur].size
       IN  /\ completed_files' = IF success THEN completed_files + 1 ELSE completed_files
           /\ bytes_transferred' = bytes_transferred + counted_bytes(success, file_size)
           /\ progress' = IF success
                          THEN progress_percent(bytes_transferred + file_size, total_bytes,
                                                completed_files + 1, total_files)
                          ELSE progress
    /\ pc' = "collect"
    /\ UNCHANGED <<jobVars, browseVars, etaVars, poolVars, slotVars, calcVars, cancelled, cancels, files,
                   idx, total_files, failed, attempted, succeeded, completion, yielded, cur>>

(* The executor's __exit__ (end of the with block of line 322) waits for   *)
(* every submitted call, started or not.                                   *)
TransferShutdown ==
    /\ kind = "Transfer"
    /\ pc = "shutdown"
    /\ Submitted \subseteq Finished
    /\ pc' = "wait"
    /\ UNCHANGED <<jobVars, browseVars, etaVars, transferVars, cancelled, cancels, files, idx,
                   total_files, completed_files, failed, attempted, succeeded, completion>>

TransferSummaryAllOrNothing(completed, total) ==
    Event(completed = total, "Successfully transferred", <<completed, total>>)

(* The transfer_completed event of lines 396-398.                          *)
TransferSummary(completed, total) ==
    Event(completed > 0, "Successfully transferred", <<completed, total>>)

(* Lines 392-398: wait for the calculator thread, then report.             *)
TransferComplete ==
    /\ kind = "Transfer"
    /\ pc = "wait"
    /\ scPc = "done"
    /\ completion' = Append(completion, TransferSummary(completed_files, total_files))
    /\ pc' = "done"
    /\ UNCHANGED <<jobVars, browseVars, etaVars, transferVars, cancelled, cancels, files, idx,
                   total_files, completed_files, failed, attempted, succeeded>>

(***************************************************************************)
(* SizeCalculatorWorker                                                    *)
(***************************************************************************)
(* max_workers=max_workers + 2 (line 309)                                  *)
calc_workers(opts) == max_workers(opts) + 2

(* chunk_size = max(1, len(files) // max_workers) (line 625)               *)
chunk_size(n, workers) == Max(1, n \div workers)

(* A count of the chunks that leaves out a last, shorter chunk.            *)
NumChunksWhole(n, workers) == Max(1, n \div chunk_size(n, workers))

(* range(0, n, chunk_size) has this many starts (lines 626-629).           *)
NumChunks(n, workers) == (n + chunk_size(n, workers) - 1) \div chunk_size(n, workers)

(* The file indices of chunk c, 1-based: files[i : i + chunk_size].        *)
ChunkFiles(c, n, workers) ==
    LET cs == chunk_size(n, workers)
    IN  [k \in 1..(Min(c * cs, n) - (c - 1) * cs) |-> (c - 1) * cs + k]

Chunks == 1..Len(chunkPos)
ChunkStarted(c) == chunkPos[c] > 0 \/ chunkDone[c]

(* No emission is pending in a chunk's worker.                             *)
NoEmit == -1
ChunksRunning == {c \in Chunks : ChunkStarted(c) /\ ~chunkDone[c]}

(* run(), lines 611-636.                                                   *)
CalculatorRun ==
    /\ kind = "Transfer"
    /\ scPc = "run"
    /\ total_calculated' = 0
    /\ scCompleted' = 0
    /\ UNCHANGED size_warnings
    /\ IF ~get_blob_service_client(clientOK, "src")
       THEN /\ msgs' = Append(msgs, [signal |-> "calculation_completed", total |-> 0])
            /\ scPc' = "done"
            /\ UNCHANGED <<chunkPos, chunkDone, emitDue>>
       ELSE LET n == NumChunks(Len(files), calc_workers(options))
            IN  /\ chunkPos' = [c \in 1..n |-> 0]
                /\ chunkDone' = [c \in 1..n |-> FALSE]
                /\ emitDue' = [c \in 1..n |-> NoEmit]
                /\ scPc' = "pool"
                /\ UNCHANGED msgs
    /\ UNCHANGED <<jobVars, browseVars, etaVars, seqVars, poolVars, runVars, slotVars, size_calculator,
                   scCancelled>>

(* An update of the running total that starts from a total of 0.           *)
add_to_stale_total(total, size) == size

(* self.total_calculated += size under the mutex (lines 593-594).          *)
add_under_mutex(total, size) == total + size

(* A probe whose failure leaves the size at the blob's size.               *)
ProbedSizeAnyway(name, probe_ok) == BlobSize(name)

(* The size one metadata probe stores for a file (lines 572-588).          *)
ProbedSize(name, probe_ok) == IF probe_ok THEN BlobSize(name) ELSE 0

(* The files of "bulk" whose get_blob_properties may raise.                *)
FlakyBulk == {<<"bulk", "2">>, <<"bulk", "8">>}

(* Whether get_blob_properties of a blob can succeed and can raise: for    *)
(* the blobs of the container and the flaky ones of "bulk" either, for the *)
(* others the read succeeds.                                               *)
ProbeResults(name) ==
    IF InSeq(name, BlobNames) \/ name \in FlakyBulk THEN BOOLEAN ELSE {TRUE}

(* _worker_function in the pool thread of chunk c, one step of "for        *)
(* file_blob in files_chunk": the probe and the update under the mutex     *)
(* (lines 565-597), its return included when the chunk is exhausted; or,   *)
(* when that update made completed_files a multiple of 10, the emission of *)
(* lines 600-604, which runs after the mutex is released.                  *)
CalculatorWorker(c) ==
    /\ kind = "Transfer"
    /\ scPc = "pool"
    /\ c \in Chunks
    /\ ~chunkDone[c]
    /\ \/ ChunkStarted(c)
       \/ /\ \A b \in 1..(c - 1) : ChunkStarted(b)
          /\ Cardinality(ChunksRunning) < calc_workers(options)
    /\ LET mine == ChunkFiles(c, Len(files), calc_workers(options))
       IN  IF emitDue[c] # NoEmit
           THEN /\ msgs' = Append(msgs, [signal |-> "size_batch_calculated",
                                         total |-> emitDue[c]])
                /\ emitDue' = [emitDue EXCEPT ![c] = NoEmit]
                /\ chunkDone' = [chunkDone EXCEPT ![c] = (chunkPos[c] = Len(mine))]
                /\ UNCHANGED <<files, total_calculated, scCompleted, chunkPos, size_warnings>>
           ELSE IF scCancelled
           THEN /\ chunkDone' = [chunkDone EXCEPT ![c] = TRUE]
                /\ UNCHANGED <<files, total_calculated, scCompleted, chunkPos, emitDue,
                               size_warnings, msgs>>
           ELSE LET f == mine[chunkPos[c] + 1]
                IN  \E probe_ok \in ProbeResults(files[f].name) :
                    LET size == ProbedSize(files[f].name, probe_ok)
                        current_total == add_under_mutex(total_calculated, size)
                        current_completed == scCompleted + 1
                        emits == current_completed % BatchEvery = 0
                    IN  /\ files' = [files EXCEPT ![f].size = size]
                        /\ size_warnings' = IF probe_ok THEN size_warnings
                                            ELSE size_warnings \cup {f}
                        /\ total_calculated' = current_total
                        /\ scCompleted' = current_completed
                        /\ emitDue' = IF emits THEN [emitDue EXCEPT ![c] = current_total]
                                      ELSE emitDue
                        /\ chunkPos' = [chunkPos EXCEPT ![c] = @ + 1]
                        /\ chunkDone' = [chunkDone EXCEPT
                                            ![c] = (~emits /\ chunkPos[c] + 1 = Len(mine))]
                        /\ UNCHANGED msgs
    /\ UNCHANGED <<jobVars, browseVars, etaVars, cancelled, cancels, pc, idx, total_files,
                   completed_files, failed, attempted, succeeded, completion, poolVars,
                   runVars, slotVars, size_calculator, scCancelled, scPc>>

(* run(), lines 638-655: the pool has drained; the final two signals.      *)
CalculatorFinish ==
    /\ kind = "Transfer"
    /\ scPc = "pool"
    /\ \A c \in Chunks : chunkDone[c]
    /\ LET final_total == total_calculated
       IN  msgs' = msgs \o << [signal |-> "size_batch_calculated", total |-> final_total],
                              [signal |-> "calculation_completed", total |-> final_total] >>
    /\ scPc' = "done"
    /\ UNCHANGED <<jobVars, browseVars, etaVars, seqVars, poolVars, runVars, slotVars, size_calculator,
                   scCancelled, total_calculated, scCompleted, chunkPos, chunkDone, emitDue,
                   size_warnings>>

(* A slot that also takes the total it receives for the bytes transferred. *)
DeliverSignalCountsBytes ==
    /\ kind = "Transfer"
    /\ msgs # <<>>
    /\ total_bytes' = Head(msgs).total
    /\ bytes_transferred' = Head(msgs).total
    /\ size_calculation_complete' =
           IF Head(msgs).signal = "calculation_completed" THEN TRUE
           ELSE size_calculation_complete
    /\ msgs' = Tail(msgs)
    /\ UNCHANGED <<jobVars, browseVars, etaVars, seqVars, poolVars, yielded, cur, progress,
                   size_calculator, scCancelled, scPc, total_calculated, scCompleted,
                   chunkPos, chunkDone, emitDue, size_warnings>>

(* The thread that owns the TransferWorker object runs the slot of the     *)
(* oldest queued signal: _on_size_batch_calculated or                      *)
(* _on_size_calculation_completed.                                         *)
DeliverSignal ==
    /\ kind = "Transfer"
    /\ msgs # <<>>
    /\ total_bytes' = Head(msgs).total
    /\ size_calculation_complete' =
           IF Head(msgs).signal = "calculation_completed" THEN TRUE
           ELSE size_calculation_complete
    /\ msgs' = Tail(msgs)
    /\ UNCHANGED <<jobVars, browseVars, etaVars, seqVars, poolVars, runVars, size_calculator, scCancelled, scPc,
                   total_calculated, scCompleted, chunkPos, chunkDone, emitDue,
                   size_warnings>>

(***************************************************************************)
(* MainWindow: the blob tree and its lazy loading of directories           *)
(* (src/main_window.py).  A tree item is known by the prefix of its        *)
(* directory; the item of <<"d">> is a top-level item, the item of         *)
(* <<"d", "e">> is the child populate/on_directory_contents_loaded makes   *)
(* for the entry "e/".                                                     *)
(***************************************************************************)
TreeDirs == {<<"d">>, <<"d", "e">>}

Placeholder == "Loading..."
EmptyText == "No items"

(* display_name of a listed entry (lines 664-672).                         *)
display_name(blob) ==
    IF blob.is_directory THEN blob.name[Len(blob.name)] \o "/" ELSE blob.name[Len(blob.name)]

(* The display names of the container's entries in ascending text order.  *)
TextOrder == <<"a", "b", "e/", "f/">>

(* parent_item.sortChildren(0, AscendingOrder) (line 698); the entries of  *)
(* one listing have distinct display names.                                *)
sortChildren(texts) == SelectSeq(TextOrder, LAMBDA t : InSeq(t, texts))

(* Whether the tree holds an item for the directory.                       *)
HasItem(dir) ==
    IF Len(dir) = 1 THEN TRUE
    ELSE InSeq(display_name(DirItem(dir)), children[SubSeq(dir, 1, Len(dir) - 1)])

(* The number of "/" in the key of an entry: one after every segment of a  *)
(* directory, one between the segments of a file.                          *)
count_slashes(blob) == IF blob.is_directory THEN Len(blob.name) ELSE Len(blob.name) - 1

(* blob_name.startswith(prefix) for the key of a directory as prefix: the  *)
(* key goes through the prefix's segments and the "/" after the last.      *)
startswith(blob, prefix) ==
    /\ Len(blob.name) >= Len(prefix)
    /\ SubSeq(blob.name, 1, Len(prefix)) = prefix
    /\ Len(blob.name) = Len(prefix) => blob.is_directory

(* A filter that keeps the directories up to two levels down.              *)
direct_children_two_levels(prefix, blobs) ==
    SelectSeq(blobs,
              LAMBDA b : /\ ~(b.is_directory /\ b.name = prefix)
                         /\ startswith(b, prefix)
                         /\ IF b.is_directory
                            THEN count_slashes(b) - Len(prefix) <= 2
                            ELSE count_slashes(b) - Len(prefix) = 0)

(* _fetch_directory_contents, lines 610-632: the entries of the listing    *)
(* that pass the filter.  relative_path is the key without the prefix,     *)
(* whose "/" are the key's less the prefix's.                              *)
direct_children(prefix, blobs) ==
    SelectSeq(blobs,
              LAMBDA b : /\ ~(b.is_directory /\ b.name = prefix)
                         /\ startswith(b, prefix)
                         /\ IF b.is_directory
                            THEN count_slashes(b) - Len(prefix) <= 1
                            ELSE count_slashes(b) - Len(prefix) = 0)

(* The check of lines 566-570 that makes on_directory_expanded return.     *)
already_loaded(item_children) ==
    Len(item_children) = 1 /\ item_children[1] # Placeholder

(* on_directory_expanded(item), the slot of blobs_tree.itemExpanded.       *)
DirectoryExpanded(dir) ==
    /\ kind = "Browse"
    /\ dir \in TreeDirs
    /\ HasItem(dir)
    /\ expands < MaxExpands
    /\ expands' = expands + 1
    /\ IF already_loaded(children[dir])
       THEN UNCHANGED <<children, listings, fetching>>
       ELSE /\ children' = [children EXCEPT ![dir] = <<Placeholder>>]
            /\ listings' = [listings EXCEPT ![dir] = @ + 1]
            /\ fetching' = [fetching EXCEPT ![dir] = @ + 1]
    /\ UNCHANGED <<jobVars, seqVars, transferVars, etaVars, loaded>>

(* _fetch_directory_contents in its thread: the listing, which is empty    *)
(* when get_blobs_in_container fails, and the queued signal.               *)
FetchDirectoryContents(dir) ==
    /\ kind = "Browse"
    /\ dir \in TreeDirs
    /\ fetching[dir] > 0
    /\ fetching' = [fetching EXCEPT ![dir] = @ - 1]
    /\ \E listing_ok \in BOOLEAN :
       LET blobs == get_blobs_in_container([a \in Accounts |-> listing_ok], "src", dir)
       IN  loaded' = Append(loaded, [parent_item |-> dir,
                                     blobs |-> direct_children(dir, blobs)])
    /\ UNCHANGED <<jobVars, seqVars, transferVars, etaVars, children, expands, listings>>

(* The same thread, given the listing in items for what                    *)
(* get_blobs_in_container returned.                                        *)
FilterListing(dir) ==
    /\ kind = "Browse"
    /\ dir \in TreeDirs
    /\ fetching[dir] > 0
    /\ fetching' = [fetching EXCEPT ![dir] = @ - 1]
    /\ loaded' = Append(loaded, [parent_item |-> dir, blobs |-> direct_children(dir, items)])
    /\ UNCHANGED <<jobVars, seqVars, transferVars, etaVars, children, expands, listings>>

(* A slot that adds the listed children to the ones the item holds.        *)
DirectoryContentsLoadedKeepsChildren ==
    /\ kind = "Browse"
    /\ loaded # <<>>
    /\ LET parent_item == Head(loaded).parent_item
           blobs == Head(loaded).blobs
           texts == IF blobs = <<>> THEN <<EmptyText>>
                    ELSE sortChildren([i \in 1..Len(blobs) |-> display_name(blobs[i])])
       IN  /\ children' = [dir \in TreeDirs |->
                               IF dir = parent_item THEN children[dir] \o texts
                               ELSE IF IsUnder(parent_item, dir) THEN <<Placeholder>>
                               ELSE children[dir]]
           /\ fetching' = [dir \in TreeDirs |->
                               IF IsUnder(parent_item, dir) THEN 0 ELSE fetching[dir]]
           /\ loaded' = SelectSeq(Tail(loaded),
                                  LAMBDA m : ~IsUnder(parent_item, m.parent_item))
    /\ UNCHANGED <<jobVars, seqVars, transferVars, etaVars, expands, listings>>

(* on_directory_contents_loaded(parent_item, blobs) in the GUI thread; a   *)
(* directory child gets its own placeholder.  takeChildren (line 645)      *)
(* takes the items of the directories below parent_item out of the tree:   *)
(* the listing threads and queued signals that hold such an item change    *)
(* nothing the tree shows, and leave the model here.                       *)
DirectoryContentsLoaded ==
    /\ kind = "Browse"
    /\ loaded # <<>>
    /\ LET parent_item == Head(loaded).parent_item
           blobs == Head(loaded).blobs
           texts == IF blobs = <<>> THEN <<EmptyText>>
                    ELSE sortChildren([i \in 1..Len(blobs) |-> display_name(blobs[i])])
       IN  /\ children' = [dir \in TreeDirs |->
                               IF dir = parent_item THEN texts
                               ELSE IF IsUnder(parent_item, dir) THEN <<Placeholder>>
                               ELSE children[dir]]
           /\ fetching' = [dir \in TreeDirs |->
                               IF IsUnder(parent_item, dir) THEN 0 ELSE fetching[dir]]
           /\ loaded' = SelectSeq(Tail(loaded),
                                  LAMBDA m : ~IsUnder(parent_item, m.parent_item))
    /\ UNCHANGED <<jobVars, seqVars, transferVars, etaVars, expands, listings>>

(***************************************************************************)
(* The jobs                                                                *)
(***************************************************************************)
(* The blobs the destination container holds when the job starts.         *)
DestBlobs == { <<"a">> }

TransferOptions ==
    [overwrite : BOOLEAN, preserve_structure : BOOLEAN, concurrency : 1..MaxConcurrency]

(* The options of the other workers, which read none of them.              *)
NoOptions == [overwrite |-> FALSE, preserve_structure |-> TRUE, concurrency |-> 1]

Init ==
    /\ kind \in Kinds
    /\ items \in (CASE kind = "Upload" -> UploadSelections
                     [] kind = "Transfer" -> TransferSelections
                     [] OTHER -> Selections)
    /\ options \in (IF kind = "Transfer" THEN TransferOptions ELSE {NoOptions})
    /\ clientOK \in {ok \in [Accounts -> BOOLEAN] : kind # "Transfer" => ok["dst"]}
    /\ destObjs = DestBlobs
    /\ cancelled = FALSE
    /\ cancels = 0
    /\ pc = (IF kind \in {"Download", "Transfer"} THEN "expand" ELSE "client")
    /\ files = (IF kind = "Upload" THEN items ELSE <<>>)
    /\ idx = 1
    /\ total_files = 0
    /\ completed_files = 0
    /\ failed = 0
    /\ attempted = {}
    /\ succeeded = {}
    /\ completion = <<>>
    /\ tstate = <<>>
    /\ tresult = <<>>
    /\ existed = {}
    /\ copies = {}
    /\ copyStatus = [k \in DestKeys |-> "none"]
    /\ yielded = {}
    /\ cur = 0
    /\ bytes_transferred = 0
    /\ progress = NoProgress
    /\ total_bytes = 0
    /\ size_calculation_complete = FALSE
    /\ start_time = FALSE
    /\ speed_eta = NoSpeedEta
    /\ size_calculator = FALSE
    /\ scCancelled = FALSE
    /\ scPc = "none"
    /\ total_calculated = 0
    /\ scCompleted = 0
    /\ chunkPos = <<>>
    /\ chunkDone = <<>>
    /\ emitDue = <<>>
    /\ size_warnings = {}
    /\ msgs = <<>>
    /\ children = [dir \in TreeDirs |-> <<Placeholder>>]
    /\ expands = 0
    /\ listings = [dir \in TreeDirs |-> 0]
    /\ fetching = [dir \in TreeDirs |-> 0]
    /\ loaded = <<>>

(* Every resolved file list and every chunk list of the jobs above fits.  *)
Slots == 1..Len(BlobNames)

PoolStart == \E i \in Slots : TaskStart(i)
PoolStartCopy == \E i \in Slots : TaskStartCopy(i)
PoolPoll == \E i \in Slots : TaskPoll(i)
ServiceCopy == \E k \in DestKeys : CopyAdvance(k)
CalculatorPool == \E c \in Slots : CalculatorWorker(c)

SequentialNext ==
    \/ Cancel
    \/ DownloadExpand
    \/ DownloadStep
    \/ UploadClient
    \/ UploadStep
    \/ DeleteClient
    \/ DeleteScan
    \/ DeleteStep

TransferSteps ==
    \/ TransferExpand
    \/ TransferStartCalculator
    \/ TransferSubmit
    \/ PoolStart
    \/ PoolStartCopy
    \/ PoolPoll
    \/ ServiceCopy
    \/ TransferCollect
    \/ TransferProcess
    \/ TransferShutdown
    \/ TransferComplete
    \/ CalculatorRun
    \/ CalculatorPool
    \/ CalculatorFinish
    \/ DeliverSignal

TransferNext == TransferCancel \/ TransferSteps

Next == SequentialNext \/ TransferNext

Spec == Init /\ [][Next]_vars

(***************************************************************************)
(* The transfer job alone, with the scheduling the threads get: every      *)
(* thread that can take a step eventually takes it.  Neither the user      *)
(* (cancel) nor the storage service (the progress of a server-side copy)   *)
(* is obliged to act.                                                      *)
(***************************************************************************)
TransferInit == Init /\ kind = "Transfer"

(* The options as the dialog's checkboxes are created (main_window.py     *)
(* 1081-1083): preserve structure checked, overwrite unchecked.           *)
DefaultOptionsInit ==
    TransferInit /\ options.preserve_structure /\ ~options.overwrite

TransferFairness ==
    /\ WF_vars(TransferExpand)
    /\ WF_vars(TransferStartCalculator)
    /\ WF_vars(TransferSubmit)
    /\ WF_vars(TransferCollect)
    /\ WF_vars(TransferProcess)
    /\ WF_vars(TransferShutdown)
    /\ WF_vars(TransferComplete)
    /\ WF_vars(CalculatorRun)
    /\ WF_vars(CalculatorFinish)
    /\ WF_vars(DeliverSignal)
    /\ \A i \in Slots : WF_vars(TaskStart(i))
    /\ \A i \in Slots : WF_vars(TaskStartCopy(i))
    /\ \A i \in Slots : WF_vars(TaskPoll(i))
    /\ \A c \in Slots : WF_vars(CalculatorWorker(c))

TransferSpec == TransferInit /\ [][TransferNext]_vars

FairTransferSpec == DefaultOptionsInit /\ [][TransferNext]_vars /\ TransferFairness

(***************************************************************************)
(* The transfer job started with the dialog's checkboxes as they are       *)
(* created (preserve structure checked, overwrite unchecked), and a user   *)
(* who may press Cancel more than once.                                    *)
(***************************************************************************)
RepeatedCancelNext == TransferCancelAgain \/ TransferSteps

RepeatedCancelSpec == DefaultOptionsInit /\ [][RepeatedCancelNext]_vars

(***************************************************************************)
(* The transfer of two selected files of the same base name, "a" and       *)
(* "d/a", into a container that holds no blob, with "preserve structure"   *)
(* and "overwrite" both unchecked: both files go to the key "a".           *)
(***************************************************************************)
SameNameInit ==
    /\ kind = "Transfer"
    /\ items = << FileItem(<<"a">>), FileItem(<<"d", "a">>) >>
    /\ options \in {o \in TransferOptions : ~o.overwrite /\ ~o.preserve_structure}
    /\ clientOK = [a \in Accounts |-> TRUE]
    /\ destObjs = {}
    /\ cancelled = FALSE
    /\ cancels = 0
    /\ pc = "expand"
    /\ files = <<>>
    /\ idx = 1
    /\ total_files = 0
    /\ completed_files = 0
    /\ failed = 0
    /\ attempted = {}
    /\ succeeded = {}
    /\ completion = <<>>
    /\ tstate = <<>>
    /\ tresult = <<>>
    /\ existed = {}
    /\ copies = {}
    /\ copyStatus = [k \in DestKeys |-> "none"]
    /\ yielded = {}
    /\ cur = 0
    /\ bytes_transferred = 0
    /\ progress = NoProgress
    /\ total_bytes = 0
    /\ size_calculation_complete = FALSE
    /\ start_time = FALSE
    /\ speed_eta = NoSpeedEta
    /\ size_calculator = FALSE
    /\ scCancelled = FALSE
    /\ scPc = "none"
    /\ total_calculated = 0
    /\ scCompleted = 0
    /\ chunkPos = <<>>
    /\ chunkDone = <<>>
    /\ emitDue = <<>>
    /\ size_warnings = {}
    /\ msgs = <<>>
    /\ children = [dir \in TreeDirs |-> <<Placeholder>>]
    /\ expands = 0
    /\ listings = [dir \in TreeDirs |-> 0]
    /\ fetching = [dir \in TreeDirs |-> 0]
    /\ loaded = <<>>

SameNameSpec == SameNameInit /\ [][TransferNext]_vars

(***************************************************************************)
(* The blob tree alone: populate_blobs_tree has made the top-level items,  *)
(* no worker runs.                                                         *)
(***************************************************************************)
BrowseInit ==
    /\ kind = "Browse"
    /\ items = <<>>
    /\ options = NoOptions
    /\ clientOK = [a \in Accounts |-> TRUE]
    /\ destObjs = DestBlobs
    /\ cancelled = FALSE
    /\ cancels = 0
    /\ pc = "done"
    /\ files = <<>>
    /\ idx = 1
    /\ total_files = 0
    /\ completed_files = 0
    /\ failed = 0
    /\ attempted = {}
    /\ succeeded = {}
    /\ completion = <<>>
    /\ tstate = <<>>
    /\ tresult = <<>>
    /\ existed = {}
    /\ copies = {}
    /\ copyStatus = [k \in DestKeys |-> "none"]
    /\ yielded = {}
    /\ cur = 0
    /\ bytes_transferred = 0
    /\ progress = NoProgress
    /\ total_bytes = 0
    /\ size_calculation_complete = FALSE
    /\ start_time = FALSE
    /\ speed_eta = NoSpeedEta
    /\ size_calculator = FALSE
    /\ scCancelled = FALSE
    /\ scPc = "none"
    /\ total_calculated = 0
    /\ scCompleted = 0
    /\ chunkPos = <<>>
    /\ chunkDone = <<>>
    /\ emitDue = <<>>
    /\ size_warnings = {}
    /\ msgs = <<>>
    /\ children = [dir \in TreeDirs |-> <<Placeholder>>]
    /\ expands = 0
    /\ listings = [dir \in TreeDirs |-> 0]
    /\ fetching = [dir \in TreeDirs |-> 0]
    /\ loaded = <<>>

ExpandItem == \E dir \in TreeDirs : DirectoryExpanded(dir)
FetchThread == \E dir \in TreeDirs : FetchDirectoryContents(dir)

BrowseNext ==
    \/ ExpandItem
    \/ FetchThread
    \/ DirectoryContentsLoaded

BrowseSpec == BrowseInit /\ [][BrowseNext]_vars

(***************************************************************************)
(* The filter of _fetch_directory_contents on its own: a listing thread    *)
(* for one directory of the tree has been started, and                     *)
(* get_blobs_in_container returns it any listing made of the entries       *)
(* below, in the order of their keys; the signal is then delivered.        *)
(***************************************************************************)
ListedEntries ==
    << FileItem(<<"a">>), DirItem(<<"d">>), FileItem(<<"d", "a">>), DirItem(<<"d", "e">>),
       FileItem(<<"d", "e", "b">>), DirItem(<<"d", "e", "f">>) >>

ListingOf(S) ==
    LET pick[i \in 0..Len(ListedEntries)] ==
            IF i = 0 THEN <<>>
            ELSE IF i \in S THEN Append(pick[i - 1], ListedEntries[i])
            ELSE pick[i - 1]
    IN  pick[Len(ListedEntries)]

Listings == {ListingOf(S) : S \in SUBSET (1..Len(ListedEntries))}

ListingInit ==
    /\ kind = "Browse"
    /\ items \in Listings
    /\ options = NoOptions
    /\ clientOK = [a \in Accounts |-> TRUE]
    /\ destObjs = DestBlobs
    /\ cancelled = FALSE
    /\ cancels = 0
    /\ pc = "done"
    /\ files = <<>>
    /\ idx = 1
    /\ total_files = 0
    /\ completed_files = 0
    /\ failed = 0
    /\ attempted = {}
    /\ succeeded = {}
    /\ completion = <<>>
    /\ tstate = <<>>
    /\ tresult = <<>>
    /\ existed = {}
    /\ copies = {}
    /\ copyStatus = [k \in DestKeys |-> "none"]
    /\ yielded = {}
    /\ cur = 0
    /\ bytes_transferred = 0
    /\ progress = NoProgress
    /\ total_bytes = 0
    /\ size_calculation_complete = FALSE
    /\ start_time = FALSE
    /\ speed_eta = NoSpeedEta
    /\ size_calculator = FALSE
    /\ scCancelled = FALSE
    /\ scPc = "none"
    /\ total_calculated = 0
    /\ scCompleted = 0
    /\ chunkPos = <<>>
    /\ chunkDone = <<>>
    /\ emitDue = <<>>
    /\ size_warnings = {}
    /\ msgs = <<>>
    /\ children = [dir \in TreeDirs |-> <<Placeholder>>]
    /\ expands = 0
    /\ listings = [dir \in TreeDirs |-> 0]
    /\ \E prefix \in TreeDirs :
          fetching = [dir \in TreeDirs |-> IF dir = prefix THEN 1 ELSE 0]
    /\ loaded = <<>>

FilterThread == \E dir \in TreeDirs : FilterListing(dir)

ListingNext ==
    \/ FilterThread
    \/ DirectoryContentsLoaded

ListingSpec == ListingInit /\ [][ListingNext]_vars

(***************************************************************************)
(* The size calculator of a transfer of one large directory, from the      *)
(* moment run() has started it (line 318): the calculator's threads and    *)
(* the slots that receive its signals; the transfer pool has not been      *)
(* given a file yet.                                                       *)
(***************************************************************************)
BulkFiles == [k \in 1..NumBulk |-> FileItem(<<"bulk", ToString(k)>>)]

(* The numbers of files the directory may hold: fewer than the calculator  *)
(* has threads, a number its thread counts do not divide, and NumBulk.     *)
BulkCounts == {2, 7, NumBulk}

EstimatorInit ==
    /\ kind = "Transfer"
    /\ items = << DirItem(<<"bulk">>) >>
    /\ options \in {o \in TransferOptions : ~o.overwrite /\ o.preserve_structure}
    /\ clientOK = [a \in Accounts |-> TRUE]
    /\ destObjs = DestBlobs
    /\ cancelled = FALSE
    /\ cancels = 0
    /\ pc = "submit"
    /\ files \in {SubSeq(BulkFiles, 1, n) : n \in BulkCounts}
    /\ idx = 1
    /\ total_files = Len(files)
    /\ completed_files = 0
    /\ failed = 0
    /\ attempted = {}
    /\ succeeded = {}
    /\ completion = <<>>
    /\ tstate = [i \in 1..Len(files) |-> "idle"]
    /\ tresult = [i \in 1..Len(files) |-> FALSE]
    /\ existed = {}
    /\ copies = {}
    /\ copyStatus = [k \in DestKeys |-> "none"]
    /\ yielded = {}
    /\ cur = 0
    /\ bytes_transferred = 0
    /\ progress = NoProgress
    /\ total_bytes = 0
    /\ size_calculation_complete = FALSE
    /\ start_time = TRUE
    /\ speed_eta = NoSpeedEta
    /\ size_calculator = TRUE
    /\ scCancelled = FALSE
    /\ scPc = "run"
    /\ total_calculated = 0
    /\ scCompleted = 0
    /\ chunkPos = <<>>
    /\ chunkDone = <<>>
    /\ emitDue = <<>>
    /\ size_warnings = {}
    /\ msgs = <<>>
    /\ children = [dir \in TreeDirs |-> <<Placeholder>>]
    /\ expands = 0
    /\ listings = [dir \in TreeDirs |-> 0]
    /\ fetching = [dir \in TreeDirs |-> 0]
    /\ loaded = <<>>

EstimatorPool == \E c \in 1..NumBulk : CalculatorWorker(c)

EstimatorNext ==
    \/ CalculatorRun
    \/ EstimatorPool
    \/ CalculatorFinish
    \/ DeliverSignal

EstimatorSpec == EstimatorInit /\ [][EstimatorNext]_vars

(***************************************************************************)
(* _calculate_speed_and_eta on its own: a worker with any counters, with   *)
(* completed_files <= total_files as run() keeps them.                     *)
(***************************************************************************)
SpeedEtaInit ==
    /\ kind = "SpeedEta"
    /\ items = <<>>
    /\ options = NoOptions
    /\ clientOK = [a \in Accounts |-> TRUE]
    /\ destObjs = DestBlobs
    /\ cancelled = FALSE
    /\ cancels = 0
    /\ pc = "process"
    /\ files = <<>>
    /\ idx = 1
    /\ total_files \in 0..MaxCount
    /\ completed_files \in 0..total_files
    /\ failed = 0
    /\ attempted = {}
    /\ succeeded = {}
    /\ completion = <<>>
    /\ tstate = <<>>
    /\ tresult = <<>>
    /\ existed = {}
    /\ copies = {}
    /\ copyStatus = [k \in DestKeys |-> "none"]
    /\ yielded = {}
    /\ cur = 0
    /\ bytes_transferred \in 0..MaxBytes
    /\ progress = NoProgress
    /\ total_bytes \in 0..MaxBytes
    /\ size_calculation_complete \in BOOLEAN
    /\ start_time \in BOOLEAN
    /\ speed_eta = NoSpeedEta
    /\ size_calculator = FALSE
    /\ scCancelled = FALSE
    /\ scPc = "none"
    /\ total_calculated = 0
    /\ scCompleted = 0
    /\ chunkPos = <<>>
    /\ chunkDone = <<>>
    /\ emitDue = <<>>
    /\ size_warnings = {}
    /\ msgs = <<>>
    /\ children = [dir \in TreeDirs |-> <<Placeholder>>]
    /\ expands = 0
    /\ listings = [dir \in TreeDirs |-> 0]
    /\ fetching = [dir \in TreeDirs |-> 0]
    /\ loaded = <<>>

SpeedEtaSpec == SpeedEtaInit /\ [][CalculateSpeedAndEta]_vars

(***************************************************************************)
(* Claims                                                                  *)
(***************************************************************************)
Done == pc = "done"
Polling(i) == i \in Indices /\ tstate[i] = "polling"
Reading(i) == i \in Indices /\ tstate[i] = "reading"
InPollLoop(i) == Polling(i) \/ Reading(i)
NotBegun(i) == tstate[i] \in {"idle", "queued"}
AllClients == \A a \in Accounts : clientOK[a]
CancelledMessages ==
    {"Download cancelled", "Upload cancelled by user", "Deletion cancelled by user"}

\* C1: once the cancellation flag is set, no file whose _transfer_single_file
\* call had not begun is probed, given a SAS URL or copied afterwards.
C1_NoNewWorkAfterCancel ==
    [][(kind = "Transfer" /\ cancelled) =>
          \A i \in Indices : NotBegun(i) => (i \notin attempted' /\ i \notin copies')]_vars

\* C2: a copy whose status stays pending or copying is eventually abandoned:
\* unless the job is cancelled, every poll loop of _transfer_single_file
\* eventually ends.
C2_PollLoopEnds ==
    \A i \in Slots : InPollLoop(i) ~> (~InPollLoop(i) \/ cancelled)

\* C3: whenever cancel() has been called on a transfer job, a size calculator
\* that exists for the job has its cancellation flag set, so it probes no
\* further file.
C3_CancelReachesCalculator ==
    (kind = "Transfer" /\ cancelled /\ size_calculator) => scCancelled

\* C4: after cancel() the counters completed_files, bytes_transferred,
\* total_bytes and total_files never change again (stated for a job that has
\* resolved its files, where total_files is already set).
C4_CountersFrozenAfterCancel ==
    [][(kind = "Transfer" /\ cancelled /\ pc # "expand") =>
          UNCHANGED <<completed_files, bytes_transferred, total_bytes, total_files>>]_vars

\* C5: a job of any kind that was cancelled before all its resolved files
\* were processed ends with one completion event that says cancelled and
\* carries the counts of what completed.
C5_CancelledOutcomeWithCounts ==
    (Done /\ cancelled /\ AllClients /\ Cardinality(attempted) < Len(files)) =>
        /\ Len(completion) = 1
        /\ completion[1].msg \in CancelledMessages
        /\ completion[1].counts # <<>>

\* C6: with overwrite disabled, a file whose destination blob existed when
\* the overwrite check ran gets no start_copy_from_url and is a success.
C6_ExistingDestinationUntouched ==
    (kind = "Transfer" /\ ~options.overwrite) =>
        \A i \in existed : i \notin copies /\ (Done => i \in succeeded)

\* C7: a job of any kind whose store client cannot be obtained ends with a
\* completion event that reports failure, and no file's operation succeeds.
C7_ClientFailureIsFatal ==
    (Done /\ ~AllClients) =>
        /\ Len(completion) = 1
        /\ ~completion[1].success
        /\ succeeded = {}

\* C8: a Download, Delete or CrossAccountCopy job that is not cancelled and
\* resolves at least one file reports success exactly when at least one
\* file's operation succeeded.
C8_SuccessIffOneSucceeded ==
    (Done /\ ~cancelled /\ kind \in {"Download", "Delete", "Transfer"} /\ Len(files) > 0) =>
        /\ Len(completion) = 1
        /\ completion[1].success <=> (succeeded # {})

C8_Witness ==
    /\ Done /\ ~cancelled /\ kind = "Transfer"
    /\ Len(files) = 2 /\ Cardinality(succeeded) = 1
    /\ completion[1].success

\* C9: an Upload job that is not cancelled, in which one file uploads and
\* another fails, reports success.
C9_UploadPartialSuccess ==
    (Done /\ ~cancelled /\ kind = "Upload" /\ succeeded # {} /\ attempted \ succeeded # {}) =>
        completion[1].success

\* C10: in a job of any kind that is not cancelled and runs its file loop
\* (it did not end at the client check), the operation of every resolved
\* file is attempted, whichever other files failed.
C10_EveryFileAttempted ==
    (Done /\ ~cancelled /\ completion[1].msg # "Failed to get Azure client") =>
        attempted = 1..Len(files)

C10_Witness ==
    /\ Done /\ ~cancelled /\ kind = "Upload"
    /\ Len(files) = 3 /\ attempted = {1, 2, 3} /\ succeeded = {3}
(* The blobs of the container below a prefix, at any depth.                *)
Descendants(prefix) ==
    {BlobNames[i] : i \in {j \in 1..Len(BlobNames) : IsUnder(prefix, BlobNames[j])}}

ResolvedNames == {files[i].name : i \in Indices}

\* C11: once DeleteWorker has resolved its selection, the list of blobs it
\* deletes holds every file below every selected directory, at any depth.
C11_DeleteResolvesRecursively ==
    (kind = "Delete" /\ pc = "loop")
        => \A j \in 1..Len(items) :
               items[j].is_directory => Descendants(items[j].name) \subseteq ResolvedNames

(* The directory prefixes of the container, the root included.             *)
Prefixes == {<<>>, <<"d">>, <<"d", "e">>}

RECURSIVE ComposeChildren(_, _, _)
(* Over the entries of a one-level listing, in order: the entry when it is *)
(* a file, the recursive listing of the entry when it is a directory.      *)
ComposeChildren(ok, entries, i) ==
    IF i > Len(entries) THEN <<>>
    ELSE (IF entries[i].is_directory
          THEN get_all_files_in_directory(ok, "src", entries[i].name, <<>>)
          ELSE <<entries[i]>>)
         \o ComposeChildren(ok, entries, i + 1)

\* C12: when DownloadWorker or TransferWorker is about to expand its
\* selection, _get_all_files_in_directory returns for every prefix what the
\* one-level listing of the prefix composes to (each child file, and the
\* recursive result of each child directory), with no directory entry and,
\* where listings succeed, every descendant file; and the list the worker
\* resolves a selected directory to holds every descendant file.
C12_ExpansionComposes ==
    /\ (kind \in {"Download", "Transfer"} /\ pc = "expand")
           => \A prefix \in Prefixes :
                  LET r == get_all_files_in_directory(clientOK, "src", prefix, <<>>)
                  IN  /\ r = ComposeChildren(clientOK,
                               get_blobs_in_container(clientOK, "src", prefix), 1)
                      /\ \A i \in 1..Len(r) : ~r[i].is_directory
                      /\ clientOK["src"]
                             => {r[i].name : i \in 1..Len(r)} = Descendants(prefix)
    /\ (kind \in {"Download", "Transfer"} /\ pc # "expand" /\ clientOK["src"])
           => \A j \in 1..Len(items) :
                  items[j].is_directory => Descendants(items[j].name) \subseteq ResolvedNames

C12_Witness ==
    /\ kind = "Download"
    /\ items = << DirItem(<<"d">>) >>
    /\ pc = "loop"
    /\ ResolvedNames = { <<"d", "a">>, <<"d", "e", "b">> }

(* The item of the directory shows a finished load: the "No items" child  *)
(* or the listed children.                                                 *)
ChildrenLoaded(dir) == HasItem(dir) /\ children[dir] # <<Placeholder>>

\* C13: an itemExpanded event on a directory item whose children are loaded
\* (none, one, or two and more) leaves the item's children as they are and
\* starts no listing.
C13_ExpandLoadedIsNoOp ==
    [][\A dir \in TreeDirs :
          (ChildrenLoaded(dir) /\ expands' = expands + 1)
              => (children'[dir] = children[dir] /\ listings'[dir] = listings[dir])]_vars

\* C14: in every state of a transfer job completed_files <= total_files, and
\* no step of the job lowers completed_files or total_files.
C14_FileCountersBoundedMonotone ==
    [][kind = "Transfer"
          => /\ completed_files <= total_files
             /\ completed_files' <= total_files'
             /\ completed_files' >= completed_files
             /\ total_files' >= total_files]_vars

C14_Witness ==
    /\ kind = "Transfer"
    /\ pc = "collect"
    /\ total_files = 2
    /\ completed_files = 2
    /\ Cardinality(succeeded) = 2

\* C15: no step lowers the job's total_bytes, whatever the order in which
\* the calculator's worker threads run: the totals the slots receive from
\* size_batch_calculated and calculation_completed never go down.
C15_TotalBytesNeverDecreases ==
    [][kind = "Transfer" => total_bytes' >= total_bytes]_vars

\* C16: every percentage a transfer job emits is between 0 and 100, and one
\* emitted while total_bytes > 0 is at most 99, also when bytes_transferred
\* has reached or passed total_bytes.
C16_ProgressInRange ==
    [][kind = "Transfer"
          => /\ progress' # NoProgress => progress' \in 0..100
             /\ (pc = "process" /\ tresult[cur] /\ total_bytes > 0) => progress' <= 99]_vars

C16_Witness ==
    /\ kind = "Transfer"
    /\ pc = "collect"
    /\ total_bytes > 0
    /\ bytes_transferred > total_bytes
    /\ progress = 99

(* The call measured a positive time on a started worker.                  *)
Measured == speed_eta.called /\ start_time /\ speed_eta.elapsed > 0

\* C17: when time has elapsed, the ETA _calculate_speed_and_eta returns is
\* byte-based if total_bytes > 0 and the speed (bytes per second) is
\* positive; otherwise file-based if completed_files > 0 and total_files > 0,
\* also when no byte has been transferred; and "Calculating..." only
\* otherwise.
C17_EtaBasisPriority ==
    Measured
        => speed_eta.eta_basis =
               (IF total_bytes > 0 /\ bytes_transferred > 0 THEN "bytes"
                ELSE IF completed_files > 0 /\ total_files > 0 THEN "files"
                ELSE "none")

\* C18: when bytes_transferred is 0, or no time has elapsed, or the worker
\* has not started, _calculate_speed_and_eta returns "0 B/s" and
\* "Calculating...", whatever the other counters are.
C18_ZeroRateWhenNothingTransferred ==
    (speed_eta.called /\ (bytes_transferred = 0 \/ speed_eta.elapsed = 0 \/ ~start_time))
        => (speed_eta.speed_str = "0 B/s" /\ speed_eta.eta_str = "Calculating...")

C18_Witness ==
    /\ speed_eta.called
    /\ start_time
    /\ speed_eta.elapsed > 0
    /\ bytes_transferred = 0
    /\ completed_files > 0
    /\ total_bytes > 0
    /\ speed_eta.speed_str = "0 B/s"
    /\ speed_eta.eta_str = "Calculating..."

\* C19: when the size calculator was cancelled after it had processed only
\* some of its files and has ended (it has emitted calculation_completed
\* with the partial total), the job's size_calculation_complete stays false.
C19_CancelledEstimateStaysIncomplete ==
    (kind = "Transfer" /\ scCancelled /\ scPc = "done"
        /\ scCompleted > 0 /\ scCompleted < Len(files))
        => ~size_calculation_complete

(* The next queued call and a free pool thread for it.                     *)
CanStart(i) ==
    /\ i \in Indices
    /\ tstate[i] = "queued"
    /\ \A j \in 1..(i - 1) : tstate[j] # "queued"
    /\ Cardinality(InFlight) < max_workers(options)

\* C20: from the start of the calculator until every file is submitted, the
\* step run() is at can always be taken, and a queued copy with a free pool
\* thread can always start, whatever the calculator has done so far.
C20_EngineNeverWaitsForSizes ==
    (kind = "Transfer" /\ pc \in {"calculator", "submit"})
        => /\ ENABLED (TransferStartCalculator \/ TransferSubmit)
           /\ \A i \in Slots : CanStart(i) => ENABLED TaskStart(i)

C20_Witness ==
    /\ kind = "Transfer"
    /\ pc = "collect"
    /\ scPc \in {"run", "pool"}
    /\ scCompleted = 0
    /\ \E i \in Indices : tstate[i] = "done" /\ i \in copies /\ i \in succeeded

NothingMessages == {"No files to download", "No items to delete", "No files to transfer"}

(* The job has ended and its expansion ran to its end with no file.        *)
ExpandedToNothing ==
    /\ Done
    /\ Len(files) = 0
    /\ \/ kind \in {"Download", "Transfer"}
       \/ kind = "Delete" /\ clientOK["src"] /\ ~cancelled

\* C21: a Download, Delete or Transfer job whose expansion gave no file ends
\* with one successful nothing-to-do event, has begun no per-file operation
\* and, for a Transfer, has created and started no size calculator.
C21_NothingToDoSucceeds ==
    ExpandedToNothing
        => /\ Len(completion) = 1
           /\ completion[1].success
           /\ completion[1].msg \in NothingMessages
           /\ attempted = {} /\ copies = {}
           /\ ~size_calculator /\ scPc = "none" /\ msgs = <<>>

C21_Witness ==
    /\ kind = "Transfer"
    /\ items = << DirItem(<<"x">>) >>
    /\ clientOK["src"]
    /\ Done
    /\ completion = << NothingToDo("No files to transfer") >>
    /\ ~size_calculator

LastSegment(name) == SubSeq(name, Len(name), Len(name))

ExpectedKey(i) ==
    IF options.preserve_structure THEN files[i].name ELSE LastSegment(files[i].name)

C23_DestinationKey ==
    [][kind = "Transfer"
          => \A i \in Slots :
                (i \notin copies /\ i \in copies')
                    => /\ copyStatus'[ExpectedKey(i)] = "pending"
                       /\ ExpectedKey(i) \in destObjs'
                       /\ \A k \in DestKeys \ {ExpectedKey(i)} :
                              copyStatus'[k] = copyStatus[k]]_vars

C23_Witness ==
    /\ kind = "Transfer"
    /\ ~options.preserve_structure
    /\ \E i \in copies : files[i].name = <<"d", "e", "b">>
    /\ <<"b">> \in destObjs
    /\ <<"d", "e", "b">> \notin destObjs


(***************************************************************************)
(* C24: at every point of a CrossAccountCopy job, the number of per-file   *)
(* copy operations that have begun and not yet returned is at most the     *)
(* concurrency the options give.                                           *)
(***************************************************************************)
Running == {i \in Slots : i \in DOMAIN tstate /\ tstate[i] \notin {"idle", "queued", "done"}}

C24_InFlightBounded ==
    kind = "Transfer" => Cardinality(Running) <= options.concurrency

C24_Witness ==
    /\ kind = "Transfer"
    /\ options.concurrency = 1
    /\ Cardinality(Running) = 1
    /\ \E i \in Slots : i \in DOMAIN tstate /\ tstate[i] = "queued"

(***************************************************************************)
(* C25: the pass of the poll loop that has read the copy status goes back  *)
(* to the top of the loop exactly when the status is pending or copying;   *)
(* otherwise it ends the loop, reporting the file succeeded if the status  *)
(* is success, and failed on status failed and on every other status.      *)
(***************************************************************************)
StillCopying(i) == copyStatus[Dest(i)] \in {"pending", "copying"}

C25_PollLoopVerdict ==
    [][kind = "Transfer"
          => \A i \in Slots :
                (Reading(i) /\ tstate'[i] # tstate[i])
                    => /\ tstate'[i] = (IF StillCopying(i) THEN "polling" ELSE "done")
                       /\ tresult'[i] <=> copyStatus[Dest(i)] = "success"
                       /\ i \in succeeded' <=> copyStatus[Dest(i)] = "success"]_vars

C25_Witness ==
    /\ kind = "Transfer"
    /\ ~cancelled
    /\ \E i \in copies :
          /\ tstate[i] = "done"
          /\ copyStatus[Dest(i)] = "aborted"
          /\ ~tresult[i]
    /\ \E i \in copies : tstate[i] = "done" /\ tresult[i]

(***************************************************************************)
(* C26: every pass of the poll loop begins with the test of the            *)
(* cancellation flag.  Once the flag is set, the next pass a file begins   *)
(* can always be taken, ends the loop and reports the file failed,         *)
(* whatever the status of the remote copy; and the job counts no file      *)
(* that was still in the loop when the flag was set, the pass that was     *)
(* between its test and its status read included.                          *)
(***************************************************************************)
C26_CancelEndsPollLoop ==
    /\ [](kind = "Transfer"
            => \A i \in Slots :
                  /\ (Polling(i) /\ cancelled) => ENABLED TaskPoll(i)
                  /\ InPollLoop(i) => i \notin yielded)
    /\ [][(kind = "Transfer" /\ cancelled)
            => /\ \A i \in Slots :
                     (Polling(i) /\ tstate'[i] # tstate[i])
                         => /\ tstate'[i] = "done"
                            /\ ~tresult'[i]
                            /\ i \notin succeeded'
               /\ pc' = "process" => pc = "process"]_vars

C26_Witness ==
    /\ kind = "Transfer"
    /\ cancelled
    /\ Done
    /\ \E i \in copies :
          /\ copyStatus[Dest(i)] = "success"
          /\ ~tresult[i]
          /\ i \notin succeeded


(***************************************************************************)
(* C27: bytes_transferred is 0 while no file is counted, and it changes    *)
(* only at the step that counts a file in completed_files, where it grows  *)
(* by the size the file's entry holds at that moment; the step that takes  *)
(* the result of a failed file changes neither counter.  So in every state *)
(* bytes_transferred is the sum of those sizes over the counted files.     *)
(***************************************************************************)
TakesResult == pc = "process" /\ pc' = "collect"

C27_BytesOnlyForCountedFiles ==
    /\ [](kind = "Transfer" => (completed_files = 0 => bytes_transferred = 0))
    /\ [][kind = "Transfer"
            => IF TakesResult /\ tresult[cur]
               THEN /\ completed_files' = completed_files + 1
                    /\ bytes_transferred' = bytes_transferred + files[cur].size
               ELSE /\ completed_files' = completed_files
                    /\ bytes_transferred' = bytes_transferred]_vars

C27_Witness ==
    /\ kind = "Transfer"
    /\ Done
    /\ Len(files) = 2
    /\ completed_files = 1
    /\ bytes_transferred > 0
    /\ bytes_transferred < BlobSize(files[1].name) + BlobSize(files[2].name)
    /\ \E i \in yielded : ~tresult[i]


(***************************************************************************)
(* C28: whenever no calculator thread holds the mutex, total_calculated is *)
(* the sum of the sizes recorded for the files the calculator's threads    *)
(* have processed, and the calculator's completed_files is their number,   *)
(* however the threads interleave.                                         *)
(***************************************************************************)
ProcessedBy(c) ==
    {ChunkFiles(c, Len(files), calc_workers(options))[k] : k \in 1..chunkPos[c]}

Processed == UNION {ProcessedBy(c) : c \in Chunks}

RECURSIVE SumOfSizes(_)
SumOfSizes(S) ==
    IF S = {} THEN 0
    ELSE LET f == CHOOSE x \in S : TRUE
         IN  files[f].size + SumOfSizes(S \ {f})

C28_NoLostUpdates ==
    kind = "Transfer"
        => /\ total_calculated = SumOfSizes(Processed)
           /\ scCompleted = Cardinality(Processed)

C28_Witness ==
    /\ kind = "Transfer"
    /\ scPc = "pool"
    /\ Cardinality({c \in Chunks : chunkPos[c] > 0 /\ ~chunkDone[c]}) >= 2
    /\ \E c \in Chunks : chunkPos[c] % 2 = 1
    /\ total_calculated > scCompleted
    /\ total_calculated < 4 * scCompleted


(***************************************************************************)
(* C29: a metadata probe that raises does not stop the estimator: the      *)
(* file's size is recorded as 0, it adds nothing to total_calculated, it   *)
(* is counted in the calculator's completed_files, and the calculator ends *)
(* only after every file of every chunk has been processed.                *)
(***************************************************************************)
RECURSIVE SumOfBlobSizes(_)
SumOfBlobSizes(S) ==
    IF S = {} THEN 0
    ELSE LET f == CHOOSE x \in S : TRUE
         IN  BlobSize(files[f].name) + SumOfBlobSizes(S \ {f})

C29_FailedProbeNotFatal ==
    kind = "Transfer"
        => /\ \A f \in size_warnings : f \in Processed /\ files[f].size = 0
           /\ total_calculated = SumOfBlobSizes(Processed \ size_warnings)
           /\ scCompleted = Cardinality(Processed)
           /\ (scPc = "done" /\ ~scCancelled /\ clientOK["src"])
                  => Processed = 1..Len(files)

C29_Witness ==
    /\ kind = "Transfer"
    /\ scPc = "done"
    /\ Cardinality(size_warnings) = 2
    /\ scCompleted = NumBulk
    /\ total_calculated > 0


(***************************************************************************)
(* C30: a step of the size calculator (its run(), its pool threads) or of  *)
(* the job's slots for its signals leaves the job's bytes_transferred and  *)
(* completed_files unchanged; of the job's data it changes only            *)
(* total_bytes, the complete flag and the size field of the file entries.  *)
(***************************************************************************)
EstimatorState ==
    <<scPc, total_calculated, scCompleted, chunkPos, chunkDone, emitDue, size_warnings, msgs>>

SlotState == <<total_bytes, size_calculation_complete>>

Entries == [i \in DOMAIN files |-> <<files[i].name, files[i].is_directory>>]

C30_EstimatorLeavesCounters ==
    [][(kind = "Transfer" /\ pc \notin {"expand", "calculator"}
          /\ (EstimatorState' # EstimatorState \/ SlotState' # SlotState))
          => /\ bytes_transferred' = bytes_transferred
             /\ completed_files' = completed_files
             /\ Entries' = Entries
             /\ UNCHANGED <<total_files, progress, cancelled, pc, poolVars, yielded, cur>>]_vars

C30_Witness ==
    /\ kind = "Transfer"
    /\ completed_files = 1
    /\ bytes_transferred > 0
    /\ size_calculation_complete
    /\ total_bytes > bytes_transferred
    /\ pc = "collect"
    /\ yielded # Submitted


(***************************************************************************)
(* C31: the entries a listing thread hands to the tree for a directory are *)
(* exactly the entries of the listing that lie directly in the directory   *)
(* (files) or are its immediate subdirectories, in the listing's order:    *)
(* never the directory itself, an entry outside it, or an entry two or     *)
(* more levels below it; and the children the tree then shows are their    *)
(* display names and nothing else.                                         *)
(***************************************************************************)
ParentOf(name) == SubSeq(name, 1, Len(name) - 1)

OneLevelBelow(prefix, listing) ==
    SelectSeq(listing, LAMBDA e : Len(e.name) >= 1 /\ ParentOf(e.name) = prefix)

DisplayNames(entries) == {display_name(entries[i]) : i \in 1..Len(entries)}

Shown(dir) == {children[dir][i] : i \in 1..Len(children[dir])}

DirectoryTexts == {"e/", "f/"}
FileTexts == {"a", "b"}

TextBefore(s, t) ==
    \E i, j \in 1..Len(TextOrder) : i < j /\ TextOrder[i] = s /\ TextOrder[j] = t

C32_DirectoriesThenFiles ==
    kind = "Browse"
        => \A dir \in TreeDirs :
              \A i, j \in 1..Len(children[dir]) :
                 LET s == children[dir][i]
                     t == children[dir][j]
                 IN  i < j
                        => /\ ~(s \in FileTexts /\ t \in DirectoryTexts)
                           /\ (s \in FileTexts /\ t \in FileTexts) => TextBefore(s, t)
                           /\ (s \in DirectoryTexts /\ t \in DirectoryTexts)
                                  => TextBefore(s, t)


(***************************************************************************)
(* C33: the item of a directory that has not been loaded holds the one     *)
(* placeholder; once the top-level directory has been loaded it never goes *)
(* back to the placeholder and is never loaded again, whatever expand      *)
(* events and load completions follow.                                     *)
(***************************************************************************)
NotLoaded(dir) == children[dir] = <<Placeholder>>

LoadsOf(dir) == {m \in 1..Len(loaded) : loaded[m].parent_item = dir}

C33_LoadedExactlyOnce ==
    [][kind = "Browse"
          => (~NotLoaded(<<"d">>)
                 => /\ ~NotLoaded(<<"d">>)'
                    /\ listings'[<<"d">>] = listings[<<"d">>])]_vars


(***************************************************************************)
(* C39: expand events on an item whose load is in flight start further     *)
(* loads; every completion replaces the item's children wholesale, and     *)
(* once no load of the item is outstanding its children are the result of  *)
(* one listing or the "No items" child, without duplicates and without a   *)
(* placeholder left among them.                                            *)
(***************************************************************************)
(* The loads of the item that have not been delivered: listing threads     *)
(* and queued signals.                                                     *)
Outstanding(dir) == fetching[dir] + Cardinality(LoadsOf(dir))

(* What the item shows for the filtered entries of one listing.            *)
ShownFor(blobs) ==
    IF blobs = <<>> THEN <<EmptyText>>
    ELSE sortChildren([i \in 1..Len(blobs) |-> display_name(blobs[i])])

(* What the item of the directory shows after one listing, which succeeds  *)
(* or fails.                                                               *)
SingleListingResults(dir) ==
    { ShownFor(direct_children(dir,
                   get_blobs_in_container([a \in Accounts |-> ok], "src", dir))) :
         ok \in BOOLEAN }

NoDuplicates(texts) ==
    \A i, j \in 1..Len(texts) : texts[i] = texts[j] => i = j

C39_OverlappingLoadsReplace ==
    [][kind = "Browse"
          => /\ Len(loaded') < Len(loaded)
                 => LET parent_item == Head(loaded).parent_item
                    IN  /\ children'[parent_item] = ShownFor(Head(loaded).blobs)
                        /\ NoDuplicates(children'[parent_item])
                        /\ ~InSeq(Placeholder, children'[parent_item])
             /\ \A dir \in TreeDirs :
                   (Outstanding(dir) > 0 /\ Outstanding(dir)' = 0)
                       => \/ children'[dir] \in SingleListingResults(dir)
                          \/ IsUnder(Head(loaded).parent_item, dir)
             /\ (listings'[<<"d">>] > 0 /\ Outstanding(<<"d">>)' = 0)
                   => children'[<<"d">>] \in SingleListingResults(<<"d">>)]_vars

(* The first of two overlapping loads has been delivered, the second is    *)
(* still outstanding.                                                      *)
C39_Witness ==
    /\ kind = "Browse"
    /\ Outstanding(<<"d">>) > 0
    /\ children[<<"d">>] \in SingleListingResults(<<"d">>)


(***************************************************************************)
(* C34: in an estimation that is not cancelled and has its client, the     *)
(* chunks partition the file list for every file and thread count, every   *)
(* file is probed exactly once, and the total of calculation_completed is  *)
(* the sum of the recorded sizes and the last total the job receives.      *)
(***************************************************************************)
AllFiles == 1..Len(files)

(* The chunks as run() cut them, which stay as they are while their        *)
(* threads work: scCompleted counts the probes made, so that it equals the *)
(* number of files processed exactly when no file was probed twice.        *)
ChunkRange(c) ==
    LET mine == ChunkFiles(c, Len(files), calc_workers(options))
    IN  {mine[k] : k \in 1..Len(mine)}

C34_EveryFileProbedOnce ==
    (kind = "Transfer" /\ size_calculator /\ ~scCancelled /\ clientOK["src"]
       /\ scPc \in {"pool", "done"})
        => /\ (scCompleted = 0 \/ scPc = "done")
                 => /\ \A f \in AllFiles :
                          Cardinality({c \in Chunks : f \in ChunkRange(c)}) = 1
                    /\ \A c \in Chunks : ChunkRange(c) \subseteq AllFiles /\ ChunkRange(c) # {}
           /\ scCompleted = Cardinality(Processed)
           /\ scPc = "done"
                 => /\ Processed = AllFiles
                    /\ scCompleted = Len(files)
                    /\ total_calculated = SumOfSizes(AllFiles)
                    /\ \A m \in 1..Len(msgs) :
                          IF m = Len(msgs)
                          THEN msgs[m] = [signal |-> "calculation_completed",
                                          total |-> SumOfSizes(AllFiles)]
                          ELSE msgs[m].signal = "size_batch_calculated"
                    /\ msgs = <<>>
                          => /\ total_bytes = SumOfSizes(AllFiles)
                             /\ size_calculation_complete

(* More chunks than threads, the last one shorter, a probe that failed,    *)
(* and every signal delivered.                                             *)
C34_Witness ==
    /\ kind = "Transfer"
    /\ scPc = "done"
    /\ msgs = <<>>
    /\ Len(files) = 7
    /\ Len(chunkPos) > calc_workers(options)
    /\ \E c \in Chunks : Cardinality(ChunkRange(c)) < chunk_size(7, calc_workers(options))
    /\ size_warnings # {}
    /\ total_bytes = SumOfSizes(AllFiles)
    /\ total_bytes > 0


(***************************************************************************)
(* C35: a run of a download, upload, delete or transfer worker emits its   *)
(* *_completed event once, with the step that ends run(), whichever way    *)
(* run() ends; no step after it emits a further one, a progress value, a   *)
(* per-file event or a speed and ETA update.                               *)
(***************************************************************************)
JobKinds == {"Download", "Upload", "Delete", "Transfer"}

(* What the emissions of progress_updated, of the per-file signals and of  *)
(* speed_eta_updated leave in the model.                                   *)
Emitted == <<progress, completed_files, succeeded, attempted, failed, speed_eta>>

C36_CancelledJobCompletes ==
    (kind = "Transfer" /\ cancelled) ~> (Done /\ Len(completion) = 1)

(* The job has completed after a cancel while a copy it started is still   *)
(* pending or copying at the service.                                      *)
C36_Witness ==
    /\ kind = "Transfer"
    /\ cancelled
    /\ Done
    /\ Len(completion) = 1
    /\ scPc = "done"
    /\ \E i \in copies : copyStatus[Dest(i)] \in {"pending", "copying"}


(***************************************************************************)
(* C37: with overwrite disabled, of the files that go to one destination   *)
(* key and whose existence check found no blob there, at most one has its  *)
(* copy started, however the pool's threads interleave.                    *)
(***************************************************************************)
C37_OneStartPerKey ==
    (kind = "Transfer" /\ ~options.overwrite)
        => \A i, j \in copies :
              (Dest(i) = Dest(j) /\ i \notin existed /\ j \notin existed) => i = j


(***************************************************************************)
(* C38: the list of files a download, delete or transfer job resolves from *)
(* its selection holds each object key at most once, and total_files is    *)
(* the number of distinct keys.                                            *)
(***************************************************************************)
ResolvedKeys == {files[i].name : i \in 1..Len(files)}

C38_EachKeyOnce ==
    kind \in {"Download", "Delete", "Transfer"}
        => /\ \A i, j \in 1..Len(files) : files[i].name = files[j].name => i = j
           /\ pc = "loop" => total_files = Cardinality(ResolvedKeys)

=============================================================================
